---- MODULE Spec2Model ----
(***************************************************************************)
(* Product catalogue service of paw-scan-server.                           *)
(*                                                                         *)
(* The state is the MongoDB "products" collection together with the        *)
(* requests that are in flight.  Every request is handled by an async      *)
(* service method; the method gives up control at each `await` of a        *)
(* storage call, so one action of the model is one storage call together   *)
(* with the synchronous code that follows it up to the next `await`.       *)
(* Each storage call (findOne, findById, insert, findOneAndUpdate,         *)
(* findOneAndDelete) is atomic in MongoDB.                                 *)
(*                                                                         *)
(* String fields are held as stored, i.e. after the schema's `trim`        *)
(* setter, which mongoose applies to documents and to query filters alike. *)
(***************************************************************************)
EXTENDS Integers, Sequences, FiniteSets, TLC

\* ------------------------------------------------------------------ bounds
MaxIds == 2          \* number of products the model lets be inserted
MaxTime == 1         \* last value of the millisecond clock

\* ------------------------------------------------------------- value sets
\* A JavaScript object is a record that has the fields that are present;
\* a field that is undefined is not in the record's domain.
Has(o, f) == f \in DOMAIN o
EmptyObject == [f \in {} |-> ""]
FakeId == 0                         \* a well-formed uuid no product ever had
Slots == {1, 2}                     \* requests that can be in flight at once

Names == {"Dog Food", "Cat Food"}
Brands == {"PetCo", "Acme"}
Barcodes == {"11111111"}

\* ------------------------------------------------------------------ state
VARIABLES
    products,   \* the collection: a set of documents
    nextId,     \* the uuid of the next document that is inserted
    now,        \* the clock read by new Date() and by mongoose timestamps
    op,         \* op[r]: the service method request r runs
    pc,         \* pc[r]: the storage call request r is waiting for
    arg,        \* arg[r]: the id and the body of request r, and the clock
                \* when its last storage call resolved
    res         \* res[r]: what the service method returned or threw

vars == <<products, nextId, now, op, pc, arg, res>>

\* -------------------------------------------------------- errorHandler.ts
createError(message, statusCode) ==
    [ok |-> FALSE, statusCode |-> statusCode, message |-> message,
     isOperational |-> TRUE, value |-> {}]

\* What the service method returns: value is {} for void, {doc} otherwise.
Returned(value) ==
    [ok |-> TRUE, statusCode |-> 0, message |-> "", isOperational |-> TRUE,
     value |-> value]

NoResult == Returned({})

\* JavaScript truthiness of an optional string field.
Truthy(o, f) == Has(o, f) /\ o[f] # ""

\* --------------------------------------------------------- models/Product.ts
\* Schema validators of the fields the model carries.  `category` stands for
\* itself and for the other fields that are `required` in the same way.
StringOk(v) == v # ""

\* The characters of the strings that requests carry as barcodes and as
\* numbers of the query string.
Spelling(v) ==
    CASE v = "11111111" -> <<"1", "1", "1", "1", "1", "1", "1", "1">>
      [] v = "99999999" -> <<"9", "9", "9", "9", "9", "9", "9", "9">>
      [] v = "1234567" -> <<"1", "2", "3", "4", "5", "6", "7">>
      [] v = "123456789012345" ->
             <<"1", "2", "3", "4", "5", "6", "7", "8", "9", "0", "1", "2",
               "3", "4", "5">>
      [] v = "invalid-barcode" ->
             <<"i", "n", "v", "a", "l", "i", "d", "-", "b", "a", "r", "c",
               "o", "d", "e">>
      [] v = "0" -> <<"0">>
      [] v = "1" -> <<"1">>
      [] v = "2" -> <<"2">>
      [] v = "3" -> <<"3">>
      [] v = "8" -> <<"8">>
      [] v = "10" -> <<"1", "0">>
      [] v = "100" -> <<"1", "0", "0">>
      [] v = "101" -> <<"1", "0", "1">>
      [] v = "-1" -> <<"-", "1">>
      [] v = "abc" -> <<"a", "b", "c">>
      [] v = "010" -> <<"0", "1", "0">>
      [] v = "5" -> <<"5">>
      [] v = "11" -> <<"1", "1">>
      [] v = "+2" -> <<"+", "2">>
      [] v = "PetCo" -> <<"P", "e", "t", "C", "o">>
      [] v = "Acme" -> <<"A", "c", "m", "e">>
      [] v = "petco" -> <<"p", "e", "t", "c", "o">>
      [] v = "pet" -> <<"p", "e", "t">>
      [] v = "CO" -> <<"C", "O">>
      [] v = "P.t" -> <<"P", ".", "t">>
      [] v = "e*" -> <<"e", "*">>
      [] v = "*" -> <<"*">>
      [] v = "(" -> <<"(">>
      [] v = "(co)" -> <<"(", "c", "o", ")">>
      [] OTHER -> << >>

Digits == {"0", "1", "2", "3", "4", "5", "6", "7", "8", "9"}

AllDigits(c) == \A i \in 1 .. Len(c) : c[i] \in Digits

\* Mutant: /^\d{8,}$/.
MatchesBarcode_noUpperBound(v) ==
    Len(Spelling(v)) >= 8 /\ AllDigits(Spelling(v))

\* /^\d{8,14}$/.test(v)
MatchesBarcode(v) ==
    /\ Len(Spelling(v)) >= 8
    /\ Len(Spelling(v)) <= 14
    /\ AllDigits(Spelling(v))

BarcodeOk(v) == v = "" \/ MatchesBarcode(v)

\* Mutant: `max` left out of the rating path.
RatingOk_noMax(v) == v >= 0

RatingOk(v) == v >= 0 /\ v <= 10

\* Mutant: the validator written as v.length >= 0.
IngredientsOk_orEmpty(v) == Len(v) >= 0

IngredientsOk(v) == Len(v) > 0

\* Document validation run by save(): `required` fields must be present.
ValidateDocument(d) ==
    /\ Has(d, "name") /\ StringOk(d.name)
    /\ Has(d, "brand") /\ StringOk(d.brand)
    /\ Has(d, "category") /\ StringOk(d.category)
    /\ Has(d, "barcode") => BarcodeOk(d.barcode)
    /\ Has(d, "rating") /\ RatingOk(d.rating)
    /\ Has(d, "ingredients") /\ IngredientsOk(d.ingredients)

\* Update validators (runValidators: true) run on the paths the update sets.
ValidateUpdate(u) ==
    /\ Has(u, "name") => StringOk(u.name)
    /\ Has(u, "brand") => StringOk(u.brand)
    /\ Has(u, "barcode") => BarcodeOk(u.barcode)
    /\ Has(u, "rating") => RatingOk(u.rating)
    /\ Has(u, "ingredients") => IngredientsOk(u.ingredients)

\* Mutant: the index on (name, brand) declared without `unique`.
NameBrandIndex_notUnique(coll) == TRUE

\* Unique index { name: 1, brand: 1 }.
NameBrandIndexOk(coll) ==
    \A p, q \in coll : (p.name = q.name /\ p.brand = q.brand) => p = q

\* Mutant: the index on barcode declared without `sparse`, so that a
\* document without the field is indexed under null.
BarcodeIndex_notSparse(coll) ==
    \A p, q \in coll :
        ((IF Has(p, "barcode") THEN p.barcode ELSE "null")
            = (IF Has(q, "barcode") THEN q.barcode ELSE "null"))
        => p = q

\* Unique sparse index { barcode: 1 }: documents without the field are not
\* in the index.
BarcodeIndexOk(coll) ==
    \A p, q \in coll :
        (Has(p, "barcode") /\ Has(q, "barcode") /\ p.barcode = q.barcode)
            => p = q

\* The unique index on _id.
IdIndexOk(coll) == \A p, q \in coll : p.id = q.id => p = q

IndexesOk(coll) ==
    /\ IdIndexOk(coll)
    /\ NameBrandIndexOk(coll)
    /\ BarcodeIndexOk(coll)

\* o with field f set to v, and o without field f.
With(o, f, v) == [g \in DOMAIN o \cup {f} |-> IF g = f THEN v ELSE o[g]]
Without(o, f) == [g \in DOMAIN o \ {f} |-> o[g]]

\* The fields of u laid over those of p.
Merge(p, u) ==
    [g \in DOMAIN p \cup DOMAIN u |-> IF g \in DOMAIN u THEN u[g] ELSE p[g]]

\* Mutant: `default: uuidv4()`, one uuid drawn when the schema is built.
NewDocument_sharedId(productData, id, time) ==
    Merge(productData, [id |-> 1, createdAt |-> time, updatedAt |-> time])

\* new ProductModel(productData): the _id default, and the timestamps that
\* save() sets on a new document.
NewDocument(productData, id, time) ==
    Merge(productData, [id |-> id, createdAt |-> time, updatedAt |-> time])

\* Mutant: every field of the body is written, createdAt and _id included.
ApplyUpdate_everyField(p, updateData, time) ==
    Merge(p, With(updateData, "updatedAt", time))

\* $set of { ...updateData, updatedAt: new Date() } on a schema with
\* `timestamps: true`: mongoose takes createdAt out of the update, and an _id
\* that gets this far is the document's own.
ApplyUpdate(p, updateData, time) ==
    Merge(p, With(Without(Without(updateData, "createdAt"), "id"),
                  "updatedAt", time))

\* ------------------------------------------------------------ storage reads
FindById(coll, id) == {p \in coll : p.id = id}

\* Mutant: the two fields of the filter swapped.
FindNameBrand_swapped(coll, name, brand) ==
    {p \in coll : p.name = brand /\ p.brand = name}

FindNameBrand(coll, name, brand) ==
    {p \in coll : p.name = name /\ p.brand = brand}

\* Mutant: the filter names a field no document has.
FindBarcode_wrongField(coll, barcode) ==
    {p \in coll : Has(p, "barCode") /\ p.barCode = barcode}

FindBarcode(coll, barcode) ==
    {p \in coll : Has(p, "barcode") /\ p.barcode = barcode}

\* Mutant: the filter without { _id: { $ne: id } }.
FindNameBrandNotId_self(coll, name, brand, id) ==
    {p \in coll : p.name = name /\ p.brand = brand}

FindNameBrandNotId(coll, name, brand, id) ==
    {p \in coll : p.name = name /\ p.brand = brand /\ p.id # id}

\* Mutant: the filter without { _id: { $ne: id } }.
FindBarcodeNotId_self(coll, barcode, id) ==
    {p \in coll : Has(p, "barcode") /\ p.barcode = barcode}

FindBarcodeNotId(coll, barcode, id) ==
    {p \in coll : Has(p, "barcode") /\ p.barcode = barcode /\ p.id # id}

\* ------------------------------------------------------------ request inputs
ValidPayload ==
    [rating |-> 5, ingredients |-> <<"chicken">>, category |-> "dry"]

Payloads ==
    { ValidPayload,
      [ValidPayload EXCEPT !.ingredients = << >>],
      [ValidPayload EXCEPT !.rating = 11],
      Without(ValidPayload, "category") }

Keys ==
    { Merge([name |-> n, brand |-> b], c) :
      n \in Names, b \in Brands,
      c \in {EmptyObject} \cup {[barcode |-> x] : x \in Barcodes} }

CreateInputs == { Merge(k, y) : k \in Keys, y \in Payloads }

PartialKeys ==
    { Merge(Merge(n, b), c) :
      n \in {EmptyObject} \cup {[name |-> x] : x \in Names \cup {""}},
      b \in {EmptyObject} \cup {[brand |-> x] : x \in Brands},
      c \in {EmptyObject} \cup {[barcode |-> x] : x \in Barcodes} }

\* Partials that change no key: the empty partial and two that the update
\* validators refuse.
PartialPayloads ==
    { EmptyObject, [rating |-> 11], [ingredients |-> << >>] }

UpdateInputs == PartialKeys \cup PartialPayloads

\* The requests of two clients that race: two names of one brand.
RaceCreateInputs ==
    { Merge(Merge([name |-> n, brand |-> "PetCo"], c), ValidPayload) :
      n \in Names,
      c \in {EmptyObject} \cup {[barcode |-> x] : x \in Barcodes} }

RaceUpdateInputs ==
    {[name |-> n] : n \in Names}
    \cup {[name |-> n, brand |-> "PetCo"] : n \in Names}
    \cup {[barcode |-> x] : x \in Barcodes}

\* The requests made while the clock runs: creates of two names, one of them
\* with a barcode, and partials that are empty, rename the product, carry a
\* barcode, are refused by the update validators, or carry the fields that
\* the server assigns.
ClockCreateInputs ==
    { Merge([name |-> "Dog Food", brand |-> "PetCo"], ValidPayload),
      Merge([name |-> "Cat Food", brand |-> "PetCo",
             barcode |-> "11111111"], ValidPayload) }

ClockUpdateInputs ==
    { EmptyObject,
      [name |-> "Cat Food", brand |-> "PetCo"],
      [barcode |-> "11111111"],
      [rating |-> 11],
      [createdAt |-> MaxTime + 1],
      [id |-> FakeId] }

ClockRaceCreateInputs ==
    { Merge([name |-> n, brand |-> "PetCo"], ValidPayload) : n \in Names }

ClockRaceUpdateInputs ==
    { EmptyObject, [name |-> "Cat Food", brand |-> "PetCo"], [rating |-> 11] }

\* Requests that try the schema: ratings at and beyond both ends of the
\* range, and ingredient lists that are empty or not.
SchemaRatings == {-1, 0, 10, 11}

SchemaCreateInputs ==
    { Merge([name |-> n, brand |-> "PetCo"], y) :
      n \in Names,
      y \in {[ValidPayload EXCEPT !.rating = x] : x \in SchemaRatings}
             \cup {[ValidPayload EXCEPT !.ingredients = << >>]} }

SchemaUpdateInputs ==
    {[rating |-> x] : x \in SchemaRatings}
    \cup {[ingredients |-> << >>], [ingredients |-> <<"beef", "rice">>],
          [rating |-> 11, ingredients |-> <<"beef", "rice">>]}

\* Bodies and barcodes sent over HTTP: each field right or wrong on its own.
HttpCreateBodies ==
    { Merge(Merge(Merge(Merge(n, c), k), [rating |-> x]),
            [ingredients |-> i]) :
      n \in {[name |-> "", brand |-> "PetCo"],
             [name |-> "Dog Food", brand |-> "PetCo"]},
      c \in {EmptyObject, [category |-> "dry"]},
      k \in {EmptyObject, [barcode |-> "11111111"],
             [barcode |-> "invalid-barcode"]},
      x \in {5, 15},
      i \in {<< >>, <<"chicken">>} }
    \cup { EmptyObject,
           Merge([name |-> "Dog Food", brand |-> ""], ValidPayload),
           Merge([brand |-> "PetCo"], ValidPayload) }

HttpUpdateBodies ==
    { EmptyObject, [name |-> ""], [name |-> "Cat Food"], [rating |-> 15],
      [rating |-> 15, ingredients |-> << >>, barcode |-> "1234567"],
      [barcode |-> "11111111"] }

HttpBarcodes ==
    {"11111111", "99999999", "1234567", "123456789012345",
     "invalid-barcode"}

\* Query strings of GET /products.
HttpQueries ==
    { Merge(p, l) :
      p \in {EmptyObject}
            \cup {[page |-> x] : x \in {"", "0", "1", "2"}},
      l \in {EmptyObject}
            \cup {[limit |-> x] :
                  x \in {"", "0", "1", "+2", "010", "100", "101"}} }
    \cup { [page |-> "-1"], [page |-> "abc"], [limit |-> "-1"],
           [limit |-> "abc"],
           [brand |-> ""], [brand |-> "petco"], [search |-> ""],
           [minRating |-> "5"], [minRating |-> "11"], [maxRating |-> "abc"],
           [minRating |-> "5", limit |-> "101"],
           [maxRating |-> "5", page |-> "2", limit |-> "1"] }

\* Query strings with both bounds on the rating: in the wrong order, in
\* the right order, equal, and one with a bound outside [0, 10].
BoundsQueries ==
    { [minRating |-> "8", maxRating |-> "3"],
      [minRating |-> "10", maxRating |-> "0"],
      [minRating |-> "8", maxRating |-> "3", limit |-> "1"],
      [minRating |-> "8", maxRating |-> "3", page |-> "2"],
      [minRating |-> "3", maxRating |-> "8"],
      [minRating |-> "8", maxRating |-> "8"],
      [minRating |-> "11", maxRating |-> "3"] }

\* The catalogue that is listed and the queries that list it.
ListCreateInputs ==
    { Merge([name |-> "Dog Food", brand |-> "PetCo"],
            [ValidPayload EXCEPT !.rating = 3]),
      Merge([name |-> "Cat Food", brand |-> "PetCo"],
            [ValidPayload EXCEPT !.rating = 8]),
      Merge([name |-> "Dog Food", brand |-> "Acme"],
            [ValidPayload EXCEPT !.rating = 8]),
      Merge([name |-> "Cat Food", brand |-> "Acme"],
            [ValidPayload EXCEPT !.rating = 10]) }

ListRatingBounds ==
    { EmptyObject, [minRating |-> 3], [minRating |-> 8], [maxRating |-> 3],
      [maxRating |-> 8], [minRating |-> 3, maxRating |-> 8],
      [minRating |-> 8, maxRating |-> 8], [minRating |-> 8, maxRating |-> 3] }

ListQueries ==
    { Merge(Merge(p, l), b) :
      p \in {EmptyObject} \cup {[page |-> x] : x \in 1 .. 3},
      l \in {EmptyObject} \cup {[limit |-> x] : x \in 1 .. 2},
      b \in ListRatingBounds }
    \cup { Merge(Merge(t, l), b) :
           t \in {[brand |-> "petco"], [brand |-> "CO"],
                  [search |-> "Dog Food"]},
           l \in {EmptyObject, [limit |-> 1]},
           b \in {EmptyObject, [minRating |-> 8]} }

\* Brand filters, some of them with characters that a regular expression
\* reads as operators.
BrandQueries ==
    { [brand |-> b] :
      b \in {"petco", "CO", "pet", "P.t", "e*", "*", "(", "(co)"} }
    \cup { [brand |-> "pet", limit |-> 1], [brand |-> "P.t", page |-> 2] }

\* Products made at different times and lists of them, with and without
\* a search term.
SortCreateInputs ==
    { Merge([name |-> "Dog Food", brand |-> "PetCo"], ValidPayload),
      Merge([name |-> "Cat Food", brand |-> "PetCo"], ValidPayload) }

SortQueries ==
    { EmptyObject, [limit |-> 1], [page |-> 2, limit |-> 1],
      [search |-> "Dog Food"], [search |-> "Dog Food", limit |-> 1] }

\* Requests that meet a failing storage.
FaultUpdateInputs ==
    { EmptyObject, [name |-> "Cat Food", brand |-> "PetCo"],
      [barcode |-> "11111111"] }

FaultRequests ==
    { [id |-> FakeId, data |-> d, since |-> now] : d \in ClockCreateInputs }
    \cup { [id |-> id, data |-> u, since |-> now] :
           id \in 0 .. MaxIds, u \in FaultUpdateInputs }

\* Two products, one of them with a barcode, that are created, deleted and
\* created again.
ReuseCreateInputs ==
    { Merge([name |-> "Dog Food", brand |-> "PetCo",
             barcode |-> "11111111"], ValidPayload),
      Merge([name |-> "Cat Food", brand |-> "PetCo"], ValidPayload) }

\* The pages of one product each.
PageQueries == {[page |-> p, limit |-> 1] : p \in 1 .. 2}

\* Ids a client can send: the ids the server has handed out, or another uuid.
KnownIds == (1 .. (nextId - 1)) \cup {FakeId}

NoArg == [id |-> FakeId, data |-> EmptyObject, since |-> 0]

Free(r) == pc[r] \in {"idle", "done"}

\* Request r ends with result x.
Finish(r, x) ==
    /\ pc' = [pc EXCEPT ![r] = "done"]
    /\ res' = [res EXCEPT ![r] = x]

\* Request r goes on to wait for storage call l.
Goto(r, l) ==
    /\ pc' = [pc EXCEPT ![r] = l]
    /\ res' = [res EXCEPT ![r] = NoResult]

Init ==
    /\ products = {}
    /\ nextId = 1
    /\ now = 0
    /\ op = [r \in Slots |-> "none"]
    /\ pc = [r \in Slots |-> "idle"]
    /\ arg = [r \in Slots |-> NoArg]
    /\ res = [r \in Slots |-> NoResult]

\* ------------------------------------------- ProductService.createProduct
\* Lines 58-77 after the first findOne resolved.
CreateProduct_FindNameBrand(r, productData) ==
    /\ Free(r)
    /\ op' = [op EXCEPT ![r] = "create"]
    /\ arg' = [arg EXCEPT ![r] = [id |-> FakeId, data |-> productData,
                                   since |-> now]]
    /\ IF FindNameBrand(products, productData.name, productData.brand) # {}
       THEN Finish(r, createError(
                "Product with this name and brand already exists", 409))
       ELSE IF Truthy(productData, "barcode")
            THEN Goto(r, "create_findBarcode")
            ELSE Goto(r, "create_save")
    /\ UNCHANGED <<products, nextId, now>>

CreateProduct_FindBarcode(r) ==
    /\ pc[r] = "create_findBarcode"
    /\ IF FindBarcode(products, arg[r].data.barcode) # {}
       THEN Finish(r, createError(
                "Product with this barcode already exists", 409))
       ELSE Goto(r, "create_save")
    /\ arg' = [arg EXCEPT ![r].since = now]
    /\ UNCHANGED <<products, nextId, now, op>>

\* Lines 79-87: the document is built with a uuid of its own, validated and
\* inserted; a validation error or a duplicate-key error of the insert has
\* no statusCode and is rethrown as the 500 of line 86.  A uuid drawn for a
\* document that is not inserted is seen by nobody, so nextId counts the
\* uuids that reached the collection.  The timestamps are read from the
\* clock by save() before the insert is sent, at some time since the
\* previous storage call resolved.
CreateProduct_Save(r) ==
    /\ pc[r] = "create_save"
    /\ nextId <= MaxIds
    /\ \E time \in arg[r].since .. now :
       LET doc == NewDocument(arg[r].data, nextId, time) IN
       IF ValidateDocument(doc) /\ IndexesOk(products \cup {doc})
       THEN /\ products' = products \cup {doc}
            /\ nextId' = nextId + 1
            /\ Finish(r, Returned({doc}))
       ELSE /\ products' = products
            /\ nextId' = nextId
            /\ Finish(r, createError("Failed to create product", 500))
    /\ UNCHANGED <<now, op, arg>>

\* ------------------------------------------- ProductService.getProductById
GetProductById(r, id) ==
    /\ Free(r)
    /\ op' = [op EXCEPT ![r] = "getById"]
    /\ arg' = [arg EXCEPT ![r] = [id |-> id, data |-> EmptyObject,
                                   since |-> now]]
    /\ IF FindById(products, id) = {}
       THEN Finish(r, createError("Product not found", 404))
       ELSE Finish(r, Returned(FindById(products, id)))
    /\ UNCHANGED <<products, nextId, now>>

\* -------------------------------------- ProductService.getProductByBarcode
GetProductByBarcode(r, barcode) ==
    /\ Free(r)
    /\ op' = [op EXCEPT ![r] = "getByBarcode"]
    /\ arg' = [arg EXCEPT ![r] = [id |-> FakeId,
                                   data |-> [barcode |-> barcode],
                                   since |-> now]]
    /\ IF FindBarcode(products, barcode) = {}
       THEN Finish(r, createError("Product not found", 404))
       ELSE Finish(r, Returned(FindBarcode(products, barcode)))
    /\ UNCHANGED <<products, nextId, now>>

\* ---------------------------------------------- ProductService.getProducts
\* The lower-case form of a character, as `$options: 'i'` compares.
Lower(ch) ==
    CASE ch = "A" -> "a"
      [] ch = "C" -> "c"
      [] ch = "O" -> "o"
      [] ch = "P" -> "p"
      [] OTHER -> ch

\* The regular expressions of the model are spelled with characters that
\* stand for themselves, `.` for any character, `*` for any number of the
\* character before it, and `(` `)` around a group that is not repeated.
\* The database refuses a pattern in which `*` has nothing to repeat or in
\* which the parentheses do not pair up.
RECURSIVE Depth(_, _)
Depth(c, n) ==
    IF n = 0 THEN 0
    ELSE Depth(c, n - 1)
         + (IF c[n] = "(" THEN 1 ELSE IF c[n] = ")" THEN 0 - 1 ELSE 0)

RegexValid(c) ==
    /\ \A n \in 1 .. Len(c) : Depth(c, n) >= 0
    /\ Depth(c, Len(c)) = 0
    /\ \A n \in 1 .. Len(c) :
          c[n] = "*" => n > 1 /\ c[n - 1] \notin {"*", "("}

RECURSIVE Tokens(_, _)
Tokens(c, i) ==
    IF i > Len(c) THEN << >>
    ELSE IF c[i] \in {"(", ")"} THEN Tokens(c, i + 1)
    ELSE IF i < Len(c) /\ c[i + 1] = "*"
    THEN <<[ch |-> c[i], star |-> TRUE]>> \o Tokens(c, i + 2)
    ELSE <<[ch |-> c[i], star |-> FALSE]>> \o Tokens(c, i + 1)

CharMatches(tok, ch) == tok.ch = "." \/ Lower(tok.ch) = Lower(ch)

RECURSIVE MatchHere(_, _, _, _)
MatchHere(toks, i, txt, j) ==
    IF i > Len(toks) THEN TRUE
    ELSE IF toks[i].star
    THEN \E k \in 0 .. (Len(txt) - j + 1) :
             /\ \A m \in 0 .. (k - 1) : CharMatches(toks[i], txt[j + m])
             /\ MatchHere(toks, i + 1, txt, j + k)
    ELSE /\ j <= Len(txt)
         /\ CharMatches(toks[i], txt[j])
         /\ MatchHere(toks, i + 1, txt, j + 1)

\* { $regex: pattern, $options: 'i' } on a string field: the pattern is not
\* anchored and is given to the database as the client wrote it.
RegexMatchesI(pattern, text) ==
    LET toks == Tokens(Spelling(pattern), 1)
        txt == Spelling(text)
    IN  \E j \in 1 .. (Len(txt) + 1) : MatchHere(toks, 1, txt, j)

\* The database can run the filter.
FilterValid(query) ==
    Truthy(query, "brand") => RegexValid(Spelling(query.brand))

\* The words that the text index { name, brand, category, ingredients }
\* holds for a document.
Words(v) ==
    CASE v = "Dog Food" -> {"dog", "food"}
      [] v = "Cat Food" -> {"cat", "food"}
      [] v = "PetCo" -> {"petco"}
      [] v = "Acme" -> {"acme"}
      [] v = "dry" -> {"dry"}
      [] v = "chicken" -> {"chicken"}
      [] v = "beef" -> {"beef"}
      [] v = "rice" -> {"rice"}
      [] OTHER -> {}

TextMatches(search, p) ==
    \E w \in Words(search) :
        w \in Words(p.name) \cup Words(p.brand) \cup Words(p.category)
               \cup UNION {Words(p.ingredients[i]) :
                            i \in 1 .. Len(p.ingredients)}

\* Mutant: $gt and $lt in place of $gte and $lte.
MatchesFilter_exclusive(p, query) ==
    /\ Truthy(query, "search") => TextMatches(query.search, p)
    /\ Truthy(query, "brand") => RegexMatchesI(query.brand, p.brand)
    /\ Has(query, "minRating") => p.rating > query.minRating
    /\ Has(query, "maxRating") => p.rating < query.maxRating

\* Lines 178-195: the filter built from the query, applied to a document.
MatchesFilter(p, query) ==
    /\ Truthy(query, "search") => TextMatches(query.search, p)
    /\ Truthy(query, "brand") => RegexMatchesI(query.brand, p.brand)
    /\ Has(query, "minRating") => p.rating >= query.minRating
    /\ Has(query, "maxRating") => p.rating <= query.maxRating

\* Lines 168-171: the defaults of the destructuring.
PageOf(query) == IF Has(query, "page") THEN query.page ELSE 1
LimitOf(query) == IF Has(query, "limit") THEN query.limit ELSE 10

\* Mutant: the offset of the page after the one asked for.
SkipOf_nextPage(query) == PageOf(query) * LimitOf(query)

\* Line 176.
SkipOf(query) == (PageOf(query) - 1) * LimitOf(query)

RECURSIVE Perms(_)
Perms(S) ==
    IF S = {} THEN {<< >>}
    ELSE UNION {{<<x>> \o t : t \in Perms(S \ {x})} : x \in S}

\* .sort({ createdAt: -1 }): the orders in which the cursor can return the
\* documents; documents with one createdAt come in any order.
SortedByCreatedAtDesc(S) ==
    {t \in Perms(S) :
        \A i, j \in 1 .. Len(t) : i < j => t[i].createdAt >= t[j].createdAt}

\* .skip(skip).limit(limit) on a cursor: a limit of 0 is no limit and a
\* negative limit is its absolute value.
SkipLimit(t, skip, limit) ==
    LET n == IF limit = 0 THEN Len(t)
             ELSE IF limit < 0 THEN 0 - limit ELSE limit
        last == IF skip + n < Len(t) THEN skip + n ELSE Len(t)
    IN  SubSeq(t, skip + 1, last)

\* Math.ceil(total / limit) for a total that is not negative.
Ceil(total, limit) ==
    IF limit = 0 THEN (IF total = 0 THEN "NaN" ELSE "Infinity")
    ELSE IF limit > 0 THEN (total + limit - 1) \div limit
    ELSE 0 - (total \div (0 - limit))

Matching(coll, query) == {p \in coll : MatchesFilter(p, query)}

\* Lines 218-228: the value returned once both reads resolved.
PaginatedResponse(query, items, total) ==
    [data |-> items,
     pagination |-> [page |-> PageOf(query), limit |-> LimitOf(query),
                     total |-> total,
                     totalPages |-> Ceil(total, LimitOf(query))]]

\* Lines 166-196: the query is taken apart and both reads of Promise.all
\* are sent; the database answers them one at a time, in either order.
GetProducts(r, query) ==
    /\ Free(r)
    /\ op' = [op EXCEPT ![r] = "list"]
    /\ arg' = [arg EXCEPT ![r] = [id |-> FakeId, data |-> query,
                                   since |-> now]]
    /\ Goto(r, "list_reads")
    /\ UNCHANGED <<products, nextId, now>>

\* ProductModel.find(filter).sort().skip().limit().lean().  A negative skip
\* and a pattern that is no regular expression are refused by the database,
\* and the catch of line 217 turns that into the 500.
GetProducts_Find(r) ==
    /\ pc[r] \in {"list_reads", "list_find"}
    /\ \E t \in SortedByCreatedAtDesc(Matching(products, arg[r].data)) :
          LET query == arg[r].data
              items == SkipLimit(t, SkipOf(query), LimitOf(query))
          IN  IF SkipOf(query) < 0 \/ ~FilterValid(query)
              THEN Finish(r, createError("Failed to retrieve products", 500))
              ELSE IF pc[r] = "list_reads"
              THEN /\ pc' = [pc EXCEPT ![r] = "list_count"]
                   /\ res' = [res EXCEPT ![r] =
                                  Returned({[data |-> items]})]
              ELSE Finish(r, Returned({PaginatedResponse(
                       query, items,
                       (CHOOSE x \in res[r].value : TRUE).total)}))
    /\ UNCHANGED <<products, nextId, now, op, arg>>

\* ProductModel.countDocuments(filter)
GetProducts_CountDocuments(r) ==
    /\ pc[r] \in {"list_reads", "list_count"}
    /\ LET query == arg[r].data
           total == Cardinality(Matching(products, query))
       IN  IF ~FilterValid(query)
           THEN Finish(r, createError("Failed to retrieve products", 500))
           ELSE IF pc[r] = "list_reads"
           THEN /\ pc' = [pc EXCEPT ![r] = "list_find"]
                /\ res' = [res EXCEPT ![r] = Returned({[total |-> total]})]
           ELSE Finish(r, Returned({PaginatedResponse(
                    query, (CHOOSE x \in res[r].value : TRUE).data,
                    total)}))
    /\ UNCHANGED <<products, nextId, now, op, arg>>

\* ------------------------------------------- ProductService.updateProduct
\* The synchronous code between the storage calls of lines 247-272.
UpdateAfterFindById(updateData) ==
    IF Truthy(updateData, "name") /\ Truthy(updateData, "brand")
    THEN "update_findNameBrand"
    ELSE IF Truthy(updateData, "barcode") THEN "update_findBarcode"
         ELSE "update_write"

UpdateAfterFindNameBrand(updateData) ==
    IF Truthy(updateData, "barcode") THEN "update_findBarcode"
    ELSE "update_write"

UpdateProduct_FindById(r, id, updateData) ==
    /\ Free(r)
    /\ op' = [op EXCEPT ![r] = "update"]
    /\ arg' = [arg EXCEPT ![r] = [id |-> id, data |-> updateData,
                                   since |-> now]]
    /\ IF FindById(products, id) = {}
       THEN Finish(r, createError("Product not found", 404))
       ELSE Goto(r, UpdateAfterFindById(updateData))
    /\ UNCHANGED <<products, nextId, now>>

UpdateProduct_FindNameBrand(r) ==
    /\ pc[r] = "update_findNameBrand"
    /\ IF FindNameBrandNotId(products, arg[r].data.name, arg[r].data.brand,
                             arg[r].id) # {}
       THEN Finish(r, createError(
                "Product with this name and brand already exists", 409))
       ELSE Goto(r, UpdateAfterFindNameBrand(arg[r].data))
    /\ arg' = [arg EXCEPT ![r].since = now]
    /\ UNCHANGED <<products, nextId, now, op>>

UpdateProduct_FindBarcode(r) ==
    /\ pc[r] = "update_findBarcode"
    /\ IF FindBarcodeNotId(products, arg[r].data.barcode, arg[r].id) # {}
       THEN Finish(r, createError(
                "Product with this barcode already exists", 409))
       ELSE Goto(r, "update_write")
    /\ arg' = [arg EXCEPT ![r].since = now]
    /\ UNCHANGED <<products, nextId, now, op>>

\* The body sets _id to another value than the document's.  MongoDB refuses
\* to modify _id; a body that names the identifier as `id`, which is not a
\* path of the schema, loses the field to strict mode.
ChangesId(updateData, id) == Has(updateData, "id") /\ updateData.id # id

\* Mutant: findByIdAndUpdate with upsert, which inserts the document that
\* it does not find.
UpdateProduct_FindByIdAndUpdate_upsert(r) ==
    /\ pc[r] = "update_write"
    /\ \E time \in arg[r].since .. now :
       IF FindById(products, arg[r].id) = {}
       THEN LET new == NewDocument(
                           Merge(CHOOSE d \in SortCreateInputs : TRUE,
                                 Without(arg[r].data, "id")),
                           arg[r].id, time)
            IN  /\ products' = products \cup {new}
                /\ Finish(r, Returned({new}))
       ELSE /\ products' = products
            /\ Finish(r, createError("Failed to update product", 500))
    /\ UNCHANGED <<nextId, now, op, arg>>

\* Lines 272-288: findByIdAndUpdate with { new: true, runValidators: true }.
\* A validation error or a duplicate-key error has no statusCode and is
\* rethrown as the 500 of line 287.  `new Date()` of line 274 is evaluated
\* when the call is made, at some time since the previous storage call
\* resolved; the write is applied by the database later.
\* The update validators run in node before the command is
\* sent; the database refuses a change of _id and a duplicate key only on a
\* document that it found.
UpdateProduct_FindByIdAndUpdate(r) ==
    /\ pc[r] = "update_write"
    /\ \E time \in arg[r].since .. now, idRefused \in BOOLEAN :
       IF ~ValidateUpdate(arg[r].data)
       THEN /\ products' = products
            /\ Finish(r, createError("Failed to update product", 500))
       ELSE IF FindById(products, arg[r].id) = {}
       THEN /\ products' = products
            /\ Finish(r, createError("Product not found", 404))
       ELSE IF idRefused /\ ChangesId(arg[r].data, arg[r].id)
       THEN /\ products' = products
            /\ Finish(r, createError("Failed to update product", 500))
       ELSE LET old == CHOOSE p \in FindById(products, arg[r].id) : TRUE
                new == ApplyUpdate(old, arg[r].data, time)
                coll == (products \ {old}) \cup {new}
            IN  IF IndexesOk(coll)
                THEN /\ products' = coll
                     /\ Finish(r, Returned({new}))
                ELSE /\ products' = products
                     /\ Finish(r, createError("Failed to update product",
                                              500))
    /\ UNCHANGED <<nextId, now, op, arg>>

\* ------------------------------------------- ProductService.deleteProduct
\* Mutant: deleteOne, whose result is an object also when nothing matched.
DeleteProduct_deleteOne(r, id) ==
    /\ Free(r)
    /\ op' = [op EXCEPT ![r] = "delete"]
    /\ arg' = [arg EXCEPT ![r] = [id |-> id, data |-> EmptyObject,
                                   since |-> now]]
    /\ products' = products \ FindById(products, id)
    /\ Finish(r, Returned({}))
    /\ UNCHANGED <<nextId, now>>

\* Mutant: findById, which removes nothing.
DeleteProduct_findById(r, id) ==
    /\ Free(r)
    /\ op' = [op EXCEPT ![r] = "delete"]
    /\ arg' = [arg EXCEPT ![r] = [id |-> id, data |-> EmptyObject,
                                   since |-> now]]
    /\ products' = products
    /\ IF FindById(products, id) = {}
       THEN Finish(r, createError("Product not found", 404))
       ELSE Finish(r, Returned({}))
    /\ UNCHANGED <<nextId, now>>

\* Mutant: a delete that marks the document and keeps it.
DeleteProduct_keepsDocument(r, id) ==
    /\ Free(r)
    /\ op' = [op EXCEPT ![r] = "delete"]
    /\ arg' = [arg EXCEPT ![r] = [id |-> id, data |-> EmptyObject,
                                   since |-> now]]
    /\ products' = products
    /\ IF FindById(products, id) = {}
       THEN Finish(r, createError("Product not found", 404))
       ELSE Finish(r, Returned({}))
    /\ UNCHANGED <<nextId, now>>

DeleteProduct(r, id) ==
    /\ Free(r)
    /\ op' = [op EXCEPT ![r] = "delete"]
    /\ arg' = [arg EXCEPT ![r] = [id |-> id, data |-> EmptyObject,
                                   since |-> now]]
    /\ IF FindById(products, id) = {}
       THEN /\ products' = products
            /\ Finish(r, createError("Product not found", 404))
       ELSE /\ products' = products \ FindById(products, id)
            /\ Finish(r, Returned({}))
    /\ UNCHANGED <<nextId, now>>

\* ------------------------------------------------ faults of the storage
\* What a storage call throws when the driver or the database fails: an
\* Error with the fault's text and without a statusCode.
Thrown(text) ==
    [ok |-> FALSE, statusCode |-> 0, message |-> text,
     isOperational |-> FALSE, value |-> {}]

FaultTexts == {"read ECONNRESET", "Server selection timed out"}

\* The message of each service method's catch block.
FailedMessage(o) ==
    CASE o = "create" -> "Failed to create product"
      [] o = "getById" -> "Failed to retrieve product"
      [] o = "getByBarcode" -> "Failed to retrieve product"
      [] o = "list" -> "Failed to retrieve products"
      [] o = "update" -> "Failed to update product"
      [] o = "delete" -> "Failed to delete product"

\* Mutant: a catch block that throws on whatever it caught.
ServiceCatch_rethrow(o, error) == error

\* The catch block of service method o: an error with a statusCode is
\* thrown on, except by getProducts, and any other error is replaced.
ServiceCatch(o, error) ==
    IF error.statusCode # 0 /\ o # "list" THEN error
    ELSE createError(FailedMessage(o), 500)

\* The first storage call of service method o fails.
FirstCallFault(r, o, request, text) ==
    /\ Free(r)
    /\ op' = [op EXCEPT ![r] = o]
    /\ arg' = [arg EXCEPT ![r] = request]
    /\ Finish(r, ServiceCatch(o, Thrown(text)))
    /\ UNCHANGED <<products, nextId, now>>

\* The storage call that request r is waiting for fails.
StorageFault(r, text) ==
    /\ ~Free(r)
    /\ Finish(r, ServiceCatch(op[r], Thrown(text)))
    /\ UNCHANGED <<products, nextId, now, op, arg>>

\* ------------------------------------------------------- productController
\* The response the controller sends for what the service returned or threw:
\* the HTTP status and the fields of the JSON body.  An error that was not
\* made by createError has no statusCode (0 here).
StatusOf(x) == IF x.statusCode # 0 THEN x.statusCode ELSE 500

MessageOf(x, fallback) == IF x.statusCode # 0 THEN x.message ELSE fallback

createProductResponse(x) ==
    IF x.ok
    THEN [status |-> 201, success |-> TRUE, data |-> x.value,
          message |-> "Product created successfully"]
    ELSE [status |-> StatusOf(x), success |-> FALSE,
          message |-> "Failed to create product", error |-> x.message]

getProductByIdResponse(x) ==
    IF x.ok
    THEN [status |-> 200, success |-> TRUE, data |-> x.value]
    ELSE [status |-> StatusOf(x), success |-> FALSE,
          message |-> MessageOf(x, "Failed to fetch product")]

updateProductResponse(x) ==
    IF x.ok
    THEN [status |-> 200, success |-> TRUE, data |-> x.value,
          message |-> "Product updated successfully"]
    ELSE [status |-> StatusOf(x), success |-> FALSE,
          message |-> MessageOf(x, "Failed to update product")]

deleteProductResponse(x) ==
    IF x.ok
    THEN [status |-> 200, success |-> TRUE,
          message |-> "Product deleted successfully"]
    ELSE [status |-> StatusOf(x), success |-> FALSE,
          message |-> MessageOf(x, "Failed to delete product")]

\* The controller answers every error of the list with status 500.
getProductsResponse(x) ==
    IF x.ok
    THEN LET result == CHOOSE v \in x.value : TRUE
         IN  [status |-> 200, success |-> TRUE, data |-> result,
              pagination |-> [page |-> result.pagination.page,
                              limit |-> result.pagination.limit,
                              total |-> result.pagination.total]]
    ELSE [status |-> 500, success |-> FALSE,
          message |-> "Failed to fetch products", error |-> x.message]

getProductByBarcodeResponse(x) ==
    IF x.ok
    THEN [status |-> 200, success |-> TRUE, data |-> x.value]
    ELSE [status |-> StatusOf(x), success |-> FALSE,
          message |-> MessageOf(x, "Failed to fetch product by barcode")]

\* ---------------------------------------------------- middleware/validation
\* What a validation chain adds to the request's errors when its field
\* breaks the rule.
FieldError(broken, field, message) ==
    IF broken THEN {[field |-> field, message |-> message]} ELSE {}

\* Mutant: the chains run in order and stop at the first one that fails.
validateCreateProduct_firstOnly(body) ==
    IF ~(Has(body, "name") /\ body.name # "")
    THEN FieldError(TRUE, "name",
                    "Product name must be between 1 and 200 characters")
    ELSE IF ~(Has(body, "brand") /\ body.brand # "")
    THEN FieldError(TRUE, "brand",
                    "Brand must be between 1 and 100 characters")
    ELSE IF ~(Has(body, "category") /\ body.category # "")
    THEN FieldError(TRUE, "category",
                    "Category must be between 1 and 100 characters")
    ELSE IF Has(body, "barcode") /\ ~MatchesBarcode(body.barcode)
    THEN FieldError(TRUE, "barcode", "Barcode must be 8-14 digits")
    ELSE IF ~(Has(body, "rating") /\ body.rating >= 0 /\ body.rating <= 10)
    THEN FieldError(TRUE, "rating",
                    "Rating must be a number between 0 and 10")
    ELSE FieldError(~(Has(body, "ingredients")
                        /\ Len(body.ingredients) >= 1),
                    "ingredients", "At least one ingredient is required")

\* The chains of validateCreateProduct: every chain runs on its field and
\* the errors of all of them are collected.  A field that is undefined is
\* validated as the empty string; `category` stands for itself and for the
\* other fields that must be present.
validateCreateProduct(body) ==
    FieldError(~(Has(body, "name") /\ body.name # ""), "name",
               "Product name must be between 1 and 200 characters")
    \cup FieldError(~(Has(body, "brand") /\ body.brand # ""), "brand",
                    "Brand must be between 1 and 100 characters")
    \cup FieldError(~(Has(body, "category") /\ body.category # ""),
                    "category",
                    "Category must be between 1 and 100 characters")
    \cup FieldError(Has(body, "barcode") /\ ~MatchesBarcode(body.barcode),
                    "barcode", "Barcode must be 8-14 digits")
    \cup FieldError(~(Has(body, "rating") /\ body.rating >= 0
                        /\ body.rating <= 10),
                    "rating", "Rating must be a number between 0 and 10")
    \cup FieldError(~(Has(body, "ingredients")
                        /\ Len(body.ingredients) >= 1),
                    "ingredients", "At least one ingredient is required")

\* The chains of validateUpdateProduct: as above, each after .optional().
validateUpdateProduct(body) ==
    FieldError(Has(body, "name") /\ body.name = "", "name",
               "Product name must be between 1 and 200 characters")
    \cup FieldError(Has(body, "brand") /\ body.brand = "", "brand",
                    "Brand must be between 1 and 100 characters")
    \cup FieldError(Has(body, "category") /\ body.category = "", "category",
                    "Category must be between 1 and 100 characters")
    \cup FieldError(Has(body, "barcode") /\ ~MatchesBarcode(body.barcode),
                    "barcode", "Barcode must be 8-14 digits")
    \cup FieldError(Has(body, "rating")
                        /\ ~(body.rating >= 0 /\ body.rating <= 10),
                    "rating", "Rating must be a number between 0 and 10")
    \cup FieldError(Has(body, "ingredients") /\ Len(body.ingredients) < 1,
                    "ingredients", "At least one ingredient is required")

\* isInt and isFloat of the validator library on the strings of the model,
\* which spell whole numbers or no number: an optional sign and then one or
\* more digits.
Unsigned(c) == IF c # << >> /\ c[1] \in {"+", "-"} THEN Tail(c) ELSE c

SpellsInteger(v) ==
    LET c == Unsigned(Spelling(v)) IN c # << >> /\ AllDigits(c)

DigitValue(ch) ==
    CASE ch = "0" -> 0 [] ch = "1" -> 1 [] ch = "2" -> 2 [] ch = "3" -> 3
      [] ch = "4" -> 4 [] ch = "5" -> 5 [] ch = "6" -> 6 [] ch = "7" -> 7
      [] ch = "8" -> 8 [] ch = "9" -> 9

RECURSIVE Value(_, _)
Value(c, n) == IF n = 0 THEN 0 ELSE 10 * Value(c, n - 1) + DigitValue(c[n])

\* parseInt and parseFloat of a string that spells a whole number.
ParseInt(v) ==
    LET c == Spelling(v)
        n == Value(Unsigned(c), Len(Unsigned(c)))
    IN  IF c[1] = "-" THEN 0 - n ELSE n

ParseFloat(v) == ParseInt(v)

\* Mutant: isInt({ min: 1 }) for the limit.
LimitOk_noMax(v) == SpellsInteger(v) /\ ParseInt(v) >= 1

\* isInt({ min: 1, max: 100 })
LimitOk(v) == SpellsInteger(v) /\ ParseInt(v) >= 1 /\ ParseInt(v) <= 100

\* isInt({ min: 1 })
PageOk(v) == SpellsInteger(v) /\ ParseInt(v) >= 1

\* isFloat({ min: 0, max: 10 })
RatingBoundOk(v) ==
    SpellsInteger(v) /\ ParseFloat(v) >= 0 /\ ParseFloat(v) <= 10

\* Mutant: a query validator that also compares the two bounds.
validateProductQuery_ordered(query) ==
    FieldError(Has(query, "page") /\ ~PageOk(query.page), "page",
               "Page must be a positive integer")
    \cup FieldError(Has(query, "limit") /\ ~LimitOk(query.limit), "limit",
                    "Limit must be between 1 and 100")
    \cup FieldError(Has(query, "search") /\ query.search = "", "search",
                    "Search term cannot be empty")
    \cup FieldError(Has(query, "brand") /\ query.brand = "", "brand",
                    "Brand filter cannot be empty")
    \cup FieldError(Has(query, "minRating")
                    /\ ~RatingBoundOk(query.minRating), "minRating",
                    "Min rating must be between 0 and 10")
    \cup FieldError(Has(query, "maxRating")
                    /\ ~RatingBoundOk(query.maxRating), "maxRating",
                    "Max rating must be between 0 and 10")
    \cup FieldError(/\ Has(query, "minRating") /\ Has(query, "maxRating")
                    /\ ParseFloat(query.minRating)
                           > ParseFloat(query.maxRating),
                    "minRating", "Min rating must not exceed max rating")

validateProductQuery(query) ==
    FieldError(Has(query, "page") /\ ~PageOk(query.page), "page",
               "Page must be a positive integer")
    \cup FieldError(Has(query, "limit") /\ ~LimitOk(query.limit), "limit",
                    "Limit must be between 1 and 100")
    \cup FieldError(Has(query, "search") /\ query.search = "", "search",
                    "Search term cannot be empty")
    \cup FieldError(Has(query, "brand") /\ query.brand = "", "brand",
                    "Brand filter cannot be empty")
    \cup FieldError(Has(query, "minRating")
                    /\ ~RatingBoundOk(query.minRating), "minRating",
                    "Min rating must be between 0 and 10")
    \cup FieldError(Has(query, "maxRating")
                    /\ ~RatingBoundOk(query.maxRating), "maxRating",
                    "Max rating must be between 0 and 10")

\* productController.getProducts: the query object built from req.query.
ParsedQuery(query) ==
    LET page == [page |-> IF Truthy(query, "page")
                          THEN ParseInt(query.page) ELSE 1]
        limit == [limit |-> IF Truthy(query, "limit")
                            THEN ParseInt(query.limit) ELSE 10]
        search == IF Truthy(query, "search")
                  THEN [search |-> query.search] ELSE EmptyObject
        brand == IF Truthy(query, "brand")
                 THEN [brand |-> query.brand] ELSE EmptyObject
        minRating == IF Truthy(query, "minRating")
                     THEN [minRating |-> ParseFloat(query.minRating)]
                     ELSE EmptyObject
        maxRating == IF Truthy(query, "maxRating")
                     THEN [maxRating |-> ParseFloat(query.maxRating)]
                     ELSE EmptyObject
    IN  Merge(Merge(Merge(page, limit), Merge(search, brand)),
              Merge(minRating, maxRating))

validateBarcode(barcode) ==
    FieldError(~MatchesBarcode(barcode), "barcode",
               "Barcode must be 8-14 digits")

\* handleValidationErrors when the request has errors: the answer it sends
\* instead of calling next().
handleValidationErrors(errors) ==
    [ok |-> FALSE, statusCode |-> 400, message |-> "Validation failed",
     isOperational |-> TRUE, value |-> errors]

handleValidationErrorsResponse(x) ==
    [status |-> x.statusCode, success |-> FALSE, error |-> x.message,
     validationErrors |-> x.value]

\* Request r is answered by handleValidationErrors and goes no further.
Refuse(r, request, errors) ==
    /\ op' = [op EXCEPT ![r] = "invalid"]
    /\ arg' = [arg EXCEPT ![r] = request]
    /\ Finish(r, handleValidationErrors(errors))
    /\ UNCHANGED <<products, nextId, now>>

\* --------------------------------------------------------- productRoutes
\* POST /products
PostProducts(r, body) ==
    /\ Free(r)
    /\ IF validateCreateProduct(body) # {}
       THEN Refuse(r, [id |-> FakeId, data |-> body, since |-> now],
                   validateCreateProduct(body))
       ELSE CreateProduct_FindNameBrand(r, body)

\* GET /products
GetProductsQuery(r, query) ==
    /\ Free(r)
    /\ IF validateProductQuery(query) # {}
       THEN Refuse(r, [id |-> FakeId, data |-> query, since |-> now],
                   validateProductQuery(query))
       ELSE GetProducts(r, ParsedQuery(query))

\* GET /products/:barcode
GetProductsBarcode(r, barcode) ==
    /\ Free(r)
    /\ IF validateBarcode(barcode) # {}
       THEN Refuse(r, [id |-> FakeId, data |-> [barcode |-> barcode],
                       since |-> now],
                   validateBarcode(barcode))
       ELSE GetProductByBarcode(r, barcode)

\* PUT /products/:id
PutProductsId(r, id, body) ==
    /\ Free(r)
    /\ IF validateUpdateProduct(body) # {}
       THEN Refuse(r, [id |-> id, data |-> body, since |-> now],
                   validateUpdateProduct(body))
       ELSE UpdateProduct_FindById(r, id, body)

\* The response to request r, once pc[r] = "done".
Response(r) ==
    CASE op[r] = "create" -> createProductResponse(res[r])
      [] op[r] = "getByBarcode" -> getProductByBarcodeResponse(res[r])
      [] op[r] = "list" -> getProductsResponse(res[r])
      [] op[r] = "invalid" -> handleValidationErrorsResponse(res[r])
      [] op[r] = "getById" -> getProductByIdResponse(res[r])
      [] op[r] = "update" -> updateProductResponse(res[r])
      [] op[r] = "delete" -> deleteProductResponse(res[r])
      [] OTHER -> [status |-> 0]

\* The clock advances.
Tick ==
    /\ now < MaxTime
    /\ now' = now + 1
    /\ UNCHANGED <<products, nextId, op, pc, arg, res>>

\* One client: a request starts when the previous one was answered.
Next ==
    \/ \E d \in CreateInputs : CreateProduct_FindNameBrand(1, d)
    \/ CreateProduct_FindBarcode(1)
    \/ CreateProduct_Save(1)
    \/ \E id \in KnownIds : GetProductById(1, id)
    \/ \E id \in KnownIds, u \in UpdateInputs :
           UpdateProduct_FindById(1, id, u)
    \/ UpdateProduct_FindNameBrand(1)
    \/ UpdateProduct_FindBarcode(1)
    \/ UpdateProduct_FindByIdAndUpdate(1)
    \/ \E id \in KnownIds : DeleteProduct(1, id)

Spec == Init /\ [][Next]_vars

\* Two clients: the storage calls of their requests interleave.
RaceNext ==
    \/ \E r \in Slots, d \in RaceCreateInputs :
           CreateProduct_FindNameBrand(r, d)
    \/ \E r \in Slots : CreateProduct_FindBarcode(r)
    \/ \E r \in Slots : CreateProduct_Save(r)
    \/ \E r \in Slots, id \in KnownIds, u \in RaceUpdateInputs :
           UpdateProduct_FindById(r, id, u)
    \/ \E r \in Slots : UpdateProduct_FindNameBrand(r)
    \/ \E r \in Slots : UpdateProduct_FindBarcode(r)
    \/ \E r \in Slots : UpdateProduct_FindByIdAndUpdate(r)
    \/ \E r \in Slots, id \in KnownIds : DeleteProduct(r, id)

RaceSpec == Init /\ [][RaceNext]_vars

\* One client and a clock that advances between and within requests.
ClockNext ==
    \/ Tick
    \/ \E d \in ClockCreateInputs : CreateProduct_FindNameBrand(1, d)
    \/ CreateProduct_FindBarcode(1)
    \/ CreateProduct_Save(1)
    \/ \E id \in KnownIds, u \in ClockUpdateInputs :
           UpdateProduct_FindById(1, id, u)
    \/ UpdateProduct_FindNameBrand(1)
    \/ UpdateProduct_FindBarcode(1)
    \/ UpdateProduct_FindByIdAndUpdate(1)
    \/ \E id \in KnownIds : DeleteProduct(1, id)

ClockSpec == Init /\ [][ClockNext]_vars

\* One client whose bodies try the schema's validators.
SchemaNext ==
    \/ \E d \in SchemaCreateInputs : CreateProduct_FindNameBrand(1, d)
    \/ CreateProduct_Save(1)
    \/ \E id \in KnownIds, u \in SchemaUpdateInputs :
           UpdateProduct_FindById(1, id, u)
    \/ UpdateProduct_FindByIdAndUpdate(1)
    \/ \E id \in KnownIds : DeleteProduct(1, id)

SchemaSpec == Init /\ [][SchemaNext]_vars

\* One client that sends its requests over HTTP.
HttpNext ==
    \/ \E body \in HttpCreateBodies : PostProducts(1, body)
    \/ CreateProduct_FindBarcode(1)
    \/ CreateProduct_Save(1)
    \/ \E barcode \in HttpBarcodes : GetProductsBarcode(1, barcode)
    \/ \E id \in KnownIds, body \in HttpUpdateBodies :
           PutProductsId(1, id, body)
    \/ UpdateProduct_FindBarcode(1)
    \/ UpdateProduct_FindByIdAndUpdate(1)
    \/ \E id \in KnownIds : DeleteProduct(1, id)

HttpSpec == Init /\ [][HttpNext]_vars

\* One client that fills the catalogue and lists it over HTTP.
HttpListNext ==
    \/ \E d \in ListCreateInputs : CreateProduct_FindNameBrand(1, d)
    \/ CreateProduct_Save(1)
    \/ \E id \in KnownIds : DeleteProduct(1, id)
    \/ \E query \in HttpQueries : GetProductsQuery(1, query)
    \/ GetProducts_Find(1)
    \/ GetProducts_CountDocuments(1)

HttpListSpec == Init /\ [][HttpListNext]_vars

\* GET /products with both bounds on the rating, on a catalogue that one
\* client fills.
BoundsNext ==
    \/ \E d \in ListCreateInputs : CreateProduct_FindNameBrand(1, d)
    \/ CreateProduct_Save(1)
    \/ \E id \in KnownIds : DeleteProduct(1, id)
    \/ \E query \in BoundsQueries : GetProductsQuery(1, query)
    \/ GetProducts_Find(1)
    \/ GetProducts_CountDocuments(1)

BoundsSpec == Init /\ [][BoundsNext]_vars

\* One client that fills and lists the catalogue.
ListNext ==
    \/ \E d \in ListCreateInputs : CreateProduct_FindNameBrand(1, d)
    \/ CreateProduct_Save(1)
    \/ \E id \in KnownIds : DeleteProduct(1, id)
    \/ \E query \in ListQueries : GetProducts(1, query)
    \/ GetProducts_Find(1)
    \/ GetProducts_CountDocuments(1)

ListSpec == Init /\ [][ListNext]_vars

\* One client that fills the catalogue and lists it by brand.
BrandNext ==
    \/ \E d \in ListCreateInputs : CreateProduct_FindNameBrand(1, d)
    \/ CreateProduct_Save(1)
    \/ \E id \in KnownIds : DeleteProduct(1, id)
    \/ \E query \in BrandQueries : GetProducts(1, query)
    \/ GetProducts_Find(1)
    \/ GetProducts_CountDocuments(1)

BrandSpec == Init /\ [][BrandNext]_vars

\* One client that fills the catalogue while the clock advances and lists
\* it.
SortNext ==
    \/ Tick
    \/ \E d \in SortCreateInputs : CreateProduct_FindNameBrand(1, d)
    \/ CreateProduct_Save(1)
    \/ \E id \in KnownIds : DeleteProduct(1, id)
    \/ \E query \in SortQueries : GetProducts(1, query)
    \/ GetProducts_Find(1)
    \/ GetProducts_CountDocuments(1)

SortSpec == Init /\ [][SortNext]_vars

\* One client and a storage whose calls can fail.
FaultNext ==
    \/ \E d \in ClockCreateInputs : CreateProduct_FindNameBrand(1, d)
    \/ CreateProduct_FindBarcode(1)
    \/ CreateProduct_Save(1)
    \/ \E id \in KnownIds : GetProductById(1, id)
    \/ GetProductByBarcode(1, "11111111")
    \/ GetProducts(1, EmptyObject)
    \/ GetProducts_Find(1)
    \/ GetProducts_CountDocuments(1)
    \/ \E id \in KnownIds, u \in FaultUpdateInputs :
           UpdateProduct_FindById(1, id, u)
    \/ UpdateProduct_FindNameBrand(1)
    \/ UpdateProduct_FindBarcode(1)
    \/ UpdateProduct_FindByIdAndUpdate(1)
    \/ \E id \in KnownIds : DeleteProduct(1, id)
    \/ \E o \in {"create", "getById", "getByBarcode", "update", "delete"},
          request \in FaultRequests, text \in FaultTexts :
           FirstCallFault(1, o, request, text)
    \/ \E text \in FaultTexts : StorageFault(1, text)

FaultSpec == Init /\ [][FaultNext]_vars

\* Requests that come one after the other; the answers of the last two are
\* kept.
OthersFree(r) == \A q \in Slots \ {r} : Free(q)

ReuseNext ==
    \E r \in Slots :
        /\ OthersFree(r)
        /\ \/ \E d \in ReuseCreateInputs : CreateProduct_FindNameBrand(r, d)
           \/ CreateProduct_FindBarcode(r)
           \/ CreateProduct_Save(r)
           \/ \E id \in KnownIds : DeleteProduct(r, id)

ReuseSpec == Init /\ [][ReuseNext]_vars

\* A catalogue that grows while the clock advances, and requests for its
\* pages that come one after the other.
PagesNext ==
    \/ Tick
    \/ \E r \in Slots :
          /\ OthersFree(r)
          /\ \/ \E d \in SortCreateInputs : CreateProduct_FindNameBrand(r, d)
             \/ CreateProduct_Save(r)
             \/ \E query \in PageQueries : GetProducts(r, query)
             \/ GetProducts_Find(r)
             \/ GetProducts_CountDocuments(r)

PagesSpec == Init /\ [][PagesNext]_vars

\* One client that lists while another creates and deletes.
ListRaceNext ==
    \/ \E query \in {EmptyObject, [limit |-> 1]} : GetProducts(1, query)
    \/ GetProducts_Find(1)
    \/ GetProducts_CountDocuments(1)
    \/ \E d \in SortCreateInputs : CreateProduct_FindNameBrand(2, d)
    \/ CreateProduct_Save(2)
    \/ \E id \in KnownIds : DeleteProduct(2, id)

ListRaceSpec == Init /\ [][ListRaceNext]_vars

\* One client that updates products it finds in the store while another
\* creates and deletes.
VanishUpdateInputs ==
    { EmptyObject, [name |-> "Cat Food"],
      [name |-> "Cat Food", brand |-> "PetCo"],
      [barcode |-> "11111111"], [rating |-> 11], [id |-> FakeId] }

VanishNext ==
    \/ \E id \in {p.id : p \in products}, u \in VanishUpdateInputs :
           UpdateProduct_FindById(1, id, u)
    \/ UpdateProduct_FindNameBrand(1)
    \/ UpdateProduct_FindBarcode(1)
    \/ UpdateProduct_FindByIdAndUpdate(1)
    \/ \E d \in SortCreateInputs : CreateProduct_FindNameBrand(2, d)
    \/ CreateProduct_Save(2)
    \/ \E id \in KnownIds : DeleteProduct(2, id)

VanishSpec == Init /\ [][VanishNext]_vars

\* Two clients that update while the clock advances.
ClockRaceNext ==
    \/ Tick
    \/ \E r \in Slots, d \in ClockRaceCreateInputs :
           CreateProduct_FindNameBrand(r, d)
    \/ \E r \in Slots : CreateProduct_Save(r)
    \/ \E r \in Slots, id \in KnownIds, u \in ClockRaceUpdateInputs :
           UpdateProduct_FindById(r, id, u)
    \/ \E r \in Slots : UpdateProduct_FindNameBrand(r)
    \/ \E r \in Slots : UpdateProduct_FindByIdAndUpdate(r)

ClockRaceSpec == Init /\ [][ClockRaceNext]_vars

\* ---------------------------------------------------------------------
\* Properties.  They are stated over the collection and the responses with
\* the predicates below, which use none of the storage operators above.
\* ---------------------------------------------------------------------
NameBrandMessage == "Product with this name and brand already exists"
BarcodeMessage == "Product with this barcode already exists"
NotFoundMessage == "Product not found"

StoredIds(coll) == {p.id : p \in coll}

PairTaken(coll, d) ==
    \E p \in coll : p.name = d.name /\ p.brand = d.brand

BarcodeTaken(coll, c) ==
    \E p \in coll : "barcode" \in DOMAIN p /\ p.barcode = c

PairTakenByOther(coll, d, id) ==
    \E p \in coll : p.id # id /\ p.name = d.name /\ p.brand = d.brand

BarcodeTakenByOther(coll, c, id) ==
    \E p \in coll : p.id # id /\ "barcode" \in DOMAIN p /\ p.barcode = c

Answered(r) == pc[r] = "done"

\* The step is the first storage call of a create, an update, a delete or a
\* lookup of request r, with the input that arg'[r] then holds.
CreateBegins(r) == CreateProduct_FindNameBrand(r, arg'[r].data)
UpdateBegins(r) == UpdateProduct_FindById(r, arg'[r].id, arg'[r].data)
DeleteRuns(r) == DeleteProduct(r, arg'[r].id)
GetByIdRuns(r) == GetProductById(r, arg'[r].id)

\* ---------------------------------------------------------------------
\* C1: in every reachable state, whatever the interleaving of the storage
\* calls of creates, updates and deletes, no two distinct stored products
\* have the same (name, brand) pair.
C1_NameBrandUnique ==
    \A p, q \in products :
        (p.name = q.name /\ p.brand = q.brand) => p = q

\* Two creates of one (name, brand) pair were both let through by the
\* existence check; one of them is stored and the other was refused by the
\* insert.
C1_Witness ==
    \E r, q \in Slots :
        /\ r # q
        /\ Answered(r) /\ op[r] = "create" /\ res[r].ok
        /\ Answered(q) /\ op[q] = "create"
        /\ ~res[q].ok /\ res[q].statusCode = 500
        /\ arg[r].data.name = arg[q].data.name
        /\ arg[r].data.brand = arg[q].data.brand
        /\ res[r].value \subseteq products

\* ---------------------------------------------------------------------
\* C2: no two distinct stored products that carry a barcode have the same
\* barcode; products without a barcode coexist, and a create that supplies
\* no barcode is never sent to the barcode check, is never answered with
\* the barcode conflict, and is inserted whenever its (name, brand) pair is
\* free.
C2_BarcodeUnique(coll) ==
    \A p, q \in coll :
        ("barcode" \in DOMAIN p /\ "barcode" \in DOMAIN q
            /\ p.barcode = q.barcode) => p = q

C2_Step(r) ==
    /\ (CreateBegins(r) /\ "barcode" \notin DOMAIN arg'[r].data)
       => /\ pc'[r] # "create_findBarcode"
          /\ res'[r].message # BarcodeMessage
    /\ (CreateProduct_Save(r) /\ "barcode" \notin DOMAIN arg[r].data
            /\ ~PairTaken(products, arg[r].data))
       => /\ res'[r].ok
          /\ Cardinality(products') = Cardinality(products) + 1

C2_SparseBarcodeUnique ==
    [][C2_BarcodeUnique(products') /\ \A r \in Slots : C2_Step(r)]_vars

\* Two products without a barcode are stored, the second inserted by a
\* create that supplied none.
C2_Witness ==
    /\ \E p, q \in products :
          p # q /\ "barcode" \notin DOMAIN p /\ "barcode" \notin DOMAIN q
    /\ \E r \in Slots :
          /\ Answered(r) /\ op[r] = "create" /\ res[r].ok
          /\ "barcode" \notin DOMAIN arg[r].data

\* ---------------------------------------------------------------------
\* C3: a create that passed the existence checks and whose insert meets a
\* product with its (name, brand) pair or its barcode, written meanwhile by
\* a concurrent request, stores nothing and is answered with status 409.
C3_RaceAnsweredAsConflict ==
    [][\A r \in Slots :
          (/\ CreateProduct_Save(r)
           /\ \/ PairTaken(products, arg[r].data)
              \/ /\ "barcode" \in DOMAIN arg[r].data
                 /\ BarcodeTaken(products, arg[r].data.barcode))
          => /\ products' = products
             /\ Response(r)'.status = 409]_vars

\* ---------------------------------------------------------------------
\* C4: a create whose (name, brand) pair is that of a stored product is
\* answered with status 409 and the name+brand message, whatever its other
\* fields are and also when its barcode is that of a stored product; the
\* collection is left as it was.
C4_Step(r) ==
    (CreateBegins(r) /\ PairTaken(products, arg'[r].data))
    => /\ Answered(r)'
       /\ Response(r)'.status = 409
       /\ Response(r)'.error = NameBrandMessage
       /\ products' = products

C4_NameBrandConflict == [][\A r \in Slots : C4_Step(r)]_vars

\* A create was answered with the name+brand conflict although its barcode
\* is stored too and its other fields would not have passed validation.
C4_Witness ==
    \E r \in Slots :
        /\ Answered(r) /\ op[r] = "create"
        /\ Response(r).status = 409
        /\ Response(r).error = NameBrandMessage
        /\ PairTaken(products, arg[r].data)
        /\ "barcode" \in DOMAIN arg[r].data
        /\ BarcodeTaken(products, arg[r].data.barcode)
        /\ arg[r].data.rating > 10

\* ---------------------------------------------------------------------
\* C5: a create with a barcode whose (name, brand) pair is free goes on to
\* the barcode check, and when a stored product has that barcode it is
\* answered with status 409 and the barcode message; the collection is left
\* as it was.
C5_Step(r) ==
    /\ (CreateBegins(r) /\ ~PairTaken(products, arg'[r].data)
            /\ "barcode" \in DOMAIN arg'[r].data
            /\ arg'[r].data.barcode # "")
       => pc'[r] = "create_findBarcode"
    /\ (CreateProduct_FindBarcode(r)
            /\ BarcodeTaken(products, arg[r].data.barcode))
       => /\ Answered(r)'
          /\ Response(r)'.status = 409
          /\ Response(r)'.error = BarcodeMessage
          /\ products' = products

C5_BarcodeConflict == [][\A r \in Slots : C5_Step(r)]_vars

\* A create was answered with the barcode conflict; its pair is free.
C5_Witness ==
    \E r \in Slots :
        /\ Answered(r) /\ op[r] = "create"
        /\ Response(r).status = 409
        /\ Response(r).error = BarcodeMessage
        /\ ~PairTaken(products, arg[r].data)
        /\ BarcodeTaken(products, arg[r].data.barcode)

\* ---------------------------------------------------------------------
\* C6: a create with valid fields whose (name, brand) pair is free and whose
\* barcode is absent or free passes both checks and inserts exactly one
\* product, leaving the others as they were; the product returned is the
\* one inserted, its id is a uuid no other stored product has, its
\* createdAt equals its updatedAt and it has at least one ingredient.
ValidFields(d) ==
    /\ "category" \in DOMAIN d /\ d.category # ""
    /\ "rating" \in DOMAIN d /\ d.rating >= 0 /\ d.rating <= 10
    /\ "ingredients" \in DOMAIN d /\ Len(d.ingredients) >= 1

BarcodeFree(coll, d) ==
    "barcode" \in DOMAIN d => ~BarcodeTaken(coll, d.barcode)

C6_Step(r) ==
    /\ (CreateBegins(r) /\ ~PairTaken(products, arg'[r].data))
       => pc'[r] = IF "barcode" \in DOMAIN arg'[r].data
                   THEN "create_findBarcode" ELSE "create_save"
    /\ (CreateProduct_FindBarcode(r) /\ BarcodeFree(products, arg[r].data))
       => pc'[r] = "create_save"
    /\ (CreateProduct_Save(r) /\ ValidFields(arg[r].data)
            /\ ~PairTaken(products, arg[r].data)
            /\ BarcodeFree(products, arg[r].data))
       => \E doc \in products' :
             /\ doc \notin products
             /\ products' = products \cup {doc}
             /\ Response(r)'.status = 201
             /\ Response(r)'.data = {doc}
             /\ doc.id >= 1
             /\ doc.id \notin StoredIds(products)
             /\ doc.createdAt = doc.updatedAt
             /\ Len(doc.ingredients) >= 1
             /\ \A f \in DOMAIN arg[r].data : doc[f] = arg[r].data[f]

UpdateStep(r) ==
    \/ UpdateBegins(r)
    \/ UpdateProduct_FindNameBrand(r)
    \/ UpdateProduct_FindBarcode(r)
    \/ UpdateProduct_FindByIdAndUpdate(r)

IsConflict(resp, message) ==
    /\ resp.status = 409 /\ ~resp.success /\ resp.message = message

C7_Step(r) ==
    /\ (UpdateBegins(r) /\ arg'[r].id \in StoredIds(products)
            /\ {"name", "brand"} \subseteq DOMAIN arg'[r].data
            /\ arg'[r].data.name # "" /\ arg'[r].data.brand # "")
       => pc'[r] = "update_findNameBrand"
    /\ UpdateProduct_FindNameBrand(r)
       => (IsConflict(Response(r)', NameBrandMessage)
             <=> PairTakenByOther(products, arg[r].data, arg[r].id))
    /\ (UpdateStep(r) /\ ~UpdateProduct_FindNameBrand(r))
       => ~IsConflict(Response(r)', NameBrandMessage)
    /\ (UpdateStep(r) /\ Answered(r)' /\ ~res'[r].ok)
       => products' = products

C7_UpdateNameBrandConflict == [][\A r \in Slots : C7_Step(r)]_vars

\* An update that carries name and brand was answered with the name+brand
\* conflict: another product has the pair.
C7_Witness ==
    \E r \in Slots :
        /\ Answered(r) /\ op[r] = "update"
        /\ IsConflict(Response(r), NameBrandMessage)
        /\ arg[r].id \in StoredIds(products)
        /\ PairTakenByOther(products, arg[r].data, arg[r].id)

\* ---------------------------------------------------------------------
\* C8 as stated: an update of a stored product whose partial carries a
\* barcode is answered 409 with the barcode message exactly when a product
\* with another id has that barcode.
C8_Original ==
    [][\A r \in Slots :
          (/\ UpdateStep(r) /\ Answered(r)'
           /\ arg'[r].id \in StoredIds(products)
           /\ "barcode" \in DOMAIN arg'[r].data)
          => (IsConflict(Response(r)', BarcodeMessage)
                <=> BarcodeTakenByOther(products, arg'[r].data.barcode,
                                        arg'[r].id))]_vars

\* C8 as amended: an update of a stored product whose partial carries a
\* barcode, and which the name+brand check did not refuse, is sent to the
\* barcode check, which answers 409 with the barcode message exactly when a
\* product with another id has that barcode at that time (the product's own
\* barcode never counts); no other step of an update gives that answer, and
\* an update that is refused leaves the collection as it was.
C8_Step(r) ==
    /\ (UpdateBegins(r) /\ arg'[r].id \in StoredIds(products)
            /\ "barcode" \in DOMAIN arg'[r].data
            /\ arg'[r].data.barcode # ""
            /\ ~(/\ {"name", "brand"} \subseteq DOMAIN arg'[r].data
                 /\ arg'[r].data.name # ""
                 /\ arg'[r].data.brand # ""))
       => pc'[r] = "update_findBarcode"
    /\ (UpdateProduct_FindNameBrand(r) /\ "barcode" \in DOMAIN arg[r].data
            /\ ~PairTakenByOther(products, arg[r].data, arg[r].id))
       => pc'[r] = "update_findBarcode"
    /\ UpdateProduct_FindBarcode(r)
       => (IsConflict(Response(r)', BarcodeMessage)
             <=> BarcodeTakenByOther(products, arg[r].data.barcode,
                                     arg[r].id))
    /\ (UpdateStep(r) /\ ~UpdateProduct_FindBarcode(r))
       => ~IsConflict(Response(r)', BarcodeMessage)
    /\ (UpdateStep(r) /\ Answered(r)' /\ ~res'[r].ok)
       => products' = products

C8_UpdateBarcodeConflict == [][\A r \in Slots : C8_Step(r)]_vars

\* An update that carries name, brand and barcode passed the name+brand
\* check and was answered with the barcode conflict.
C8_Witness ==
    \E r \in Slots :
        /\ Answered(r) /\ op[r] = "update"
        /\ IsConflict(Response(r), BarcodeMessage)
        /\ {"name", "brand"} \subseteq DOMAIN arg[r].data
        /\ arg[r].id \in StoredIds(products)
        /\ BarcodeTakenByOther(products, arg[r].data.barcode, arg[r].id)

\* ---------------------------------------------------------------------
\* C9: an update or a delete of an id that no stored product has is
\* answered with status 404 and the message "Product not found" and leaves
\* the collection as it was.
IsNotFound(resp) ==
    /\ resp.status = 404 /\ ~resp.success /\ resp.message = NotFoundMessage

C9_Step(r) ==
    /\ (UpdateBegins(r) /\ arg'[r].id \notin StoredIds(products))
       => /\ Answered(r)'
          /\ IsNotFound(Response(r)')
          /\ products' = products
    /\ (DeleteRuns(r) /\ arg'[r].id \notin StoredIds(products))
       => /\ Answered(r)'
          /\ IsNotFound(Response(r)')
          /\ products' = products

C9_NotFound == [][\A r \in Slots : C9_Step(r)]_vars

\* An update of an id that is not stored was answered 404 while other
\* products are stored.
C9_Witness ==
    \E r \in Slots :
        /\ Answered(r) /\ op[r] = "update"
        /\ IsNotFound(Response(r))
        /\ arg[r].id \notin StoredIds(products)
        /\ products # {}

\* ---------------------------------------------------------------------
\* C10: a delete that succeeds removes the product with that id and no
\* other; an id that was stored and is gone is never stored again, and a
\* lookup by id or a delete of an id that is not stored is answered 404.
C10_Step(r) ==
    /\ (DeleteRuns(r) /\ res'[r].ok)
       => /\ arg'[r].id \in StoredIds(products)
          /\ products' = {p \in products : p.id # arg'[r].id}
    /\ \A x \in 1 .. (nextId - 1) :
          x \notin StoredIds(products) => x \notin StoredIds(products')
    /\ ((GetByIdRuns(r) \/ DeleteRuns(r))
            /\ arg'[r].id \notin StoredIds(products))
       => IsNotFound(Response(r)')
    /\ (GetByIdRuns(r) /\ arg'[r].id \in StoredIds(products))
       => Response(r)'.status = 200

C10_DeleteThenNotFound == [][\A r \in Slots : C10_Step(r)]_vars

\* A lookup of an id that was handed out, and so was deleted since, was
\* answered 404.
C10_Witness ==
    \E r \in Slots :
        /\ Answered(r) /\ op[r] = "getById"
        /\ IsNotFound(Response(r))
        /\ arg[r].id \in 1 .. (nextId - 1)

\* ---------------------------------------------------------------------
\* The write of an update by request r: the product before and after it.
UpdateWrites(r) == UpdateProduct_FindByIdAndUpdate(r) /\ res'[r].ok

Stored(coll, id) == CHOOSE p \in coll : p.id = id

\* C11: the write of an update with an empty partial, made while the
\* product is stored, succeeds; the product keeps every field but
\* updatedAt, the other products stay as they were, and the product's
\* updatedAt becomes strictly greater than it was.
C11_EmptyUpdate ==
    [][\A r \in Slots :
          (/\ UpdateProduct_FindByIdAndUpdate(r)
           /\ DOMAIN arg[r].data = {}
           /\ arg[r].id \in StoredIds(products))
          => /\ Response(r)'.status = 200
             /\ arg[r].id \in StoredIds(products')
             /\ LET old == Stored(products, arg[r].id)
                    new == Stored(products', arg[r].id)
                IN  /\ Response(r)'.data = {new}
                    /\ DOMAIN new = DOMAIN old
                    /\ \A f \in DOMAIN old \ {"updatedAt"} : new[f] = old[f]
                    /\ products' \ {new} = products \ {old}
                    /\ new.updatedAt > old.updatedAt]_vars

\* ---------------------------------------------------------------------
\* C12: no step changes the createdAt of a product that stays stored, and
\* an update that succeeds returns and stores a product with the id it was
\* asked to update and the createdAt that product had, whatever fields its
\* body carries.
C12_Step(r) ==
    UpdateWrites(r)
    => /\ arg[r].id \in StoredIds(products)
       /\ \E new \in products' :
             /\ res'[r].value = {new}
             /\ new.id = arg[r].id
             /\ new.createdAt = Stored(products, arg[r].id).createdAt
             /\ StoredIds(products') = StoredIds(products)

C12_IdAndCreatedAtKept ==
    [][/\ \A p \in products, q \in products' :
             p.id = q.id => q.createdAt = p.createdAt
       /\ \A r \in Slots : C12_Step(r)]_vars

\* An update whose body carries a createdAt was applied some time after the
\* product was created: the product's createdAt is not the body's.
C12_Witness ==
    \E r \in Slots :
        /\ Answered(r) /\ op[r] = "update" /\ res[r].ok
        /\ "createdAt" \in DOMAIN arg[r].data
        /\ \E p \in products :
              /\ res[r].value = {p}
              /\ p.createdAt # arg[r].data.createdAt
              /\ p.updatedAt > p.createdAt

\* ---------------------------------------------------------------------
\* C13: an update that succeeds sets updatedAt to a time at which the
\* update ran; no step makes the updatedAt of a stored product smaller;
\* createdAt <= updatedAt for every stored product; and an update that
\* fails leaves the collection, and so every updatedAt, as it was.
C13_UpdatedAtMonotone ==
    [][/\ \A p \in products, q \in products' :
             p.id = q.id => q.updatedAt >= p.updatedAt
       /\ \A q \in products' : q.createdAt <= q.updatedAt
       /\ \A r \in Slots :
             /\ UpdateWrites(r)
                => \E new \in products' :
                      /\ res'[r].value = {new}
                      /\ new.updatedAt \in arg[r].since .. now
             /\ (UpdateStep(r) /\ Answered(r)' /\ ~res'[r].ok)
                => products' = products]_vars

\* ---------------------------------------------------------------------
\* A step of a create or of an update of request r.
CreateStep(r) ==
    \/ CreateBegins(r)
    \/ CreateProduct_FindBarcode(r)
    \/ CreateProduct_Save(r)

\* C14: every stored product has at least one ingredient, and a create or
\* an update whose body carries an empty ingredients list is answered with
\* a failure and leaves the collection as it was.
C14_Step(r) ==
    (/\ CreateStep(r) \/ UpdateStep(r)
     /\ Answered(r)'
     /\ "ingredients" \in DOMAIN arg'[r].data
     /\ Len(arg'[r].data.ingredients) = 0)
    => /\ ~Response(r)'.success
       /\ products' = products

C14_AtLeastOneIngredient ==
    [][/\ \A p \in products' : Len(p.ingredients) >= 1
       /\ \A r \in Slots : C14_Step(r)]_vars

\* An update with an empty ingredients list reached the write while its
\* product was stored and was refused there.
C14_Witness ==
    \E r \in Slots :
        /\ Answered(r) /\ op[r] = "update"
        /\ "ingredients" \in DOMAIN arg[r].data
        /\ Len(arg[r].data.ingredients) = 0
        /\ arg[r].id \in StoredIds(products)
        /\ Response(r).status = 500

\* ---------------------------------------------------------------------
\* C15: the rating of every stored product is in [0, 10], both ends
\* included, and a create or an update whose body carries a rating outside
\* that range is answered with a failure and leaves the collection as it
\* was.
C15_Step(r) ==
    (/\ CreateStep(r) \/ UpdateStep(r)
     /\ Answered(r)'
     /\ "rating" \in DOMAIN arg'[r].data
     /\ (arg'[r].data.rating < 0 \/ arg'[r].data.rating > 10))
    => /\ ~Response(r)'.success
       /\ products' = products

C15_RatingInRange ==
    [][/\ \A p \in products' : p.rating >= 0 /\ p.rating <= 10
       /\ \A r \in Slots : C15_Step(r)]_vars

\* Products with the ratings 0 and 10 are stored, and an update of a stored
\* product to the rating 11 was refused.
C15_Witness ==
    /\ \E p, q \in products : p.rating = 0 /\ q.rating = 10
    /\ \E r \in Slots :
          /\ Answered(r) /\ op[r] = "update"
          /\ "rating" \in DOMAIN arg[r].data
          /\ arg[r].data.rating = 11
          /\ arg[r].id \in StoredIds(products)
          /\ Response(r).status = 500

\* ---------------------------------------------------------------------
\* What the rules of the request fields are, stated on the request itself.
WellFormedBarcodes == {"11111111", "99999999"}

BrokenCreateFields(body) ==
    {f \in {"name", "brand", "category"} :
        f \notin DOMAIN body \/ body[f] = ""}
    \cup (IF "barcode" \in DOMAIN body
             /\ body.barcode \notin WellFormedBarcodes
          THEN {"barcode"} ELSE {})
    \cup (IF "rating" \in DOMAIN body /\ body.rating \in 0 .. 10
          THEN {} ELSE {"rating"})
    \cup (IF "ingredients" \in DOMAIN body /\ body.ingredients # << >>
          THEN {} ELSE {"ingredients"})

BrokenUpdateFields(body) ==
    {f \in {"name", "brand", "category"} \cap DOMAIN body : body[f] = ""}
    \cup (IF "barcode" \in DOMAIN body
             /\ body.barcode \notin WellFormedBarcodes
          THEN {"barcode"} ELSE {})
    \cup (IF "rating" \in DOMAIN body /\ body.rating \notin 0 .. 10
          THEN {"rating"} ELSE {})
    \cup (IF "ingredients" \in DOMAIN body /\ body.ingredients = << >>
          THEN {"ingredients"} ELSE {})

PostBegins(r) == PostProducts(r, arg'[r].data)
PutBegins(r) == PutProductsId(r, arg'[r].id, arg'[r].data)
BarcodeLookup(r) ==
    /\ "barcode" \in DOMAIN arg'[r].data
    /\ GetProductsBarcode(r, arg'[r].data.barcode)

\* Request r was answered by the validation middleware in this step: no
\* service method was entered and the collection is as it was.
RefusedAtOnce(r) ==
    /\ Answered(r)'
    /\ op'[r] = "invalid"
    /\ Response(r)'.status = 400
    /\ ~Response(r)'.success
    /\ Response(r)'.error = "Validation failed"
    /\ products' = products

\* C16: a create or an update whose body breaks a rule, and a lookup by a
\* barcode that is not 8 to 14 digits, is answered in the step in which it
\* arrives with status 400 and error "Validation failed", without a service
\* method being entered and with the collection as it was; a lookup by a
\* well-formed barcode that no product has is answered 404 with the
\* message "Product not found".
C16_Step(r) ==
    /\ (PostBegins(r) /\ BrokenCreateFields(arg'[r].data) # {})
       => RefusedAtOnce(r)
    /\ (PutBegins(r) /\ BrokenUpdateFields(arg'[r].data) # {})
       => RefusedAtOnce(r)
    /\ (BarcodeLookup(r) /\ arg'[r].data.barcode \notin WellFormedBarcodes)
       => RefusedAtOnce(r)
    /\ (BarcodeLookup(r) /\ arg'[r].data.barcode \in WellFormedBarcodes)
       => /\ op'[r] = "getByBarcode"
          /\ IF BarcodeTaken(products, arg'[r].data.barcode)
             THEN Response(r)'.status = 200
             ELSE IsNotFound(Response(r)')

C16_ValidationFirst == [][\A r \in Slots : C16_Step(r)]_vars

\* A lookup by a barcode of fifteen digits was refused while a product is
\* stored.
C16_Witness ==
    \E r \in Slots :
        /\ Answered(r) /\ op[r] = "invalid"
        /\ arg[r].data = [barcode |-> "123456789012345"]
        /\ Response(r).error = "Validation failed"
        /\ products # {}

\* ---------------------------------------------------------------------
\* C17: the answer to a create whose body breaks the rules of one or more
\* fields has status 400 and lists exactly the fields whose rule is broken,
\* each once and with a message.
C17_Step(r) ==
    (PostBegins(r) /\ BrokenCreateFields(arg'[r].data) # {})
    => /\ Response(r)'.status = 400
       /\ {e.field : e \in Response(r)'.validationErrors}
             = BrokenCreateFields(arg'[r].data)
       /\ Cardinality(Response(r)'.validationErrors)
             = Cardinality(BrokenCreateFields(arg'[r].data))
       /\ \A e \in Response(r)'.validationErrors : e.message # ""

C17_AllFieldsReported == [][\A r \in Slots : C17_Step(r)]_vars

\* A create with an empty name, no ingredients and a rating beyond 10 was
\* answered with an entry for each of the three.
C17_Witness ==
    \E r \in Slots :
        /\ Answered(r) /\ op[r] = "invalid"
        /\ "rating" \in DOMAIN arg[r].data /\ arg[r].data.rating = 15
        /\ "name" \in DOMAIN arg[r].data /\ arg[r].data.name = ""
        /\ {"name", "rating", "ingredients"}
              = {e.field : e \in Response(r).validationErrors}

\* ---------------------------------------------------------------------
\* The limits and pages, as the client writes them, that lie in range, and
\* the numbers they stand for.
LimitsInRange == {"1", "+2", "010", "100"}
PagesInRange == {"1", "2"}

Meant(v) ==
    CASE v = "1" -> 1
      [] v = "2" -> 2
      [] v = "+2" -> 2
      [] v = "010" -> 10
      [] v = "100" -> 100

LimitMeant(query) ==
    IF "limit" \in DOMAIN query THEN Meant(query.limit) ELSE 10

PageMeant(query) ==
    IF "page" \in DOMAIN query THEN Meant(query.page) ELSE 1

OutOfRange(query) ==
    \/ "limit" \in DOMAIN query /\ query.limit \notin LimitsInRange
    \/ "page" \in DOMAIN query /\ query.page \notin PagesInRange

\* C18: a list request enters the service only if its limit, when given,
\* is in 1..100 and its page, when given, is at least 1, and it then carries
\* the limit and the page that the client wrote, 10 for an absent limit and
\* 1 for an absent page; a list request that does not enter the service is
\* answered 400 "Validation failed" in the step in which it arrives, with
\* the collection as it was; and the limit with which the collection is
\* read lies in 1..100.
C18_Step(r) ==
    /\ (Free(r) /\ op'[r] = "list")
       => \A query \in HttpQueries :
              GetProductsQuery(r, query)
              => /\ ~OutOfRange(query)
                 /\ arg'[r].data.limit = LimitMeant(query)
                 /\ arg'[r].data.page = PageMeant(query)
    /\ (Free(r) /\ op'[r] = "invalid"
           /\ GetProductsQuery(r, arg'[r].data))
       => RefusedAtOnce(r)
    /\ GetProducts_Find(r)
       => /\ LimitOf(arg[r].data) \in 1 .. 100
          /\ SkipOf(arg[r].data) >= 0

C18_LimitAndPageChecked == [][\A r \in Slots : C18_Step(r)]_vars

\* A list request without limit and page was answered with limit 10 and
\* page 1 while a product is stored.
C18_Witness ==
    \E r \in Slots :
        /\ Answered(r) /\ op[r] = "list"
        /\ Response(r).status = 200
        /\ Response(r).pagination.limit = 10
        /\ Response(r).pagination.page = 1
        /\ products # {}

\* A list request with limit 101 was refused while a product is stored.
C18_WitnessRefused ==
    \E r \in Slots :
        /\ Answered(r) /\ op[r] = "invalid"
        /\ arg[r].data = [limit |-> "101"]
        /\ Response(r).status = 400
        /\ products # {}

\* ---------------------------------------------------------------------
\* What a list request asks for, read off the query the service was given.
PageAsked(query) == IF "page" \in DOMAIN query THEN query.page ELSE 1
LimitAsked(query) == IF "limit" \in DOMAIN query THEN query.limit ELSE 10

\* The queries of the model that name a brand, "petco" and "CO", select the
\* products of PetCo; the search for "Dog Food" selects every product, all
\* of them being some Food.
Wanted(p, query) ==
    /\ "brand" \in DOMAIN query => p.brand = "PetCo"
    /\ "minRating" \in DOMAIN query => query.minRating <= p.rating
    /\ "maxRating" \in DOMAIN query => p.rating <= query.maxRating

WantedIn(coll, query) == {p \in coll : Wanted(p, query)}

Smaller(a, b) == IF a < b THEN a ELSE b

\* The list request r gets its answer in this step.
ListAnswered(r) ==
    /\ op[r] = "list"
    /\ ~Answered(r)
    /\ Answered(r)'

\* C19: with one client, so that the collection does not change while a
\* list request runs, the answer to the request for page p with limit l
\* has status 200; its items are distinct stored products that match the
\* filter, as many as are left after (p-1)*l of the matching ones and at
\* most l; total is the number of stored products that match; totalPages
\* is the least n with n*l >= total; and a page beyond totalPages has no
\* items.
C19_Step(r) ==
    ListAnswered(r)
    => LET query == arg[r].data
           p == PageAsked(query)
           l == LimitAsked(query)
           wanted == WantedIn(products, query)
           n == Cardinality(wanted)
           answer == Response(r)'
           items == answer.data.data
           pagination == answer.data.pagination
           left == IF n > (p - 1) * l THEN n - (p - 1) * l ELSE 0
       IN  /\ answer.status = 200
           /\ \A i \in 1 .. Len(items) : items[i] \in wanted
           /\ \A i, j \in 1 .. Len(items) : i # j => items[i] # items[j]
           /\ Len(items) = Smaller(l, left)
           /\ Len(items) <= l
           /\ pagination.page = p
           /\ pagination.limit = l
           /\ pagination.total = n
           /\ pagination.totalPages * l >= n
           /\ (pagination.totalPages - 1) * l < n
           /\ p > pagination.totalPages => items = << >>

C19_Pagination == [][\A r \in Slots : C19_Step(r)]_vars

\* Page 2 with limit 1 of a collection of two products was answered with
\* one item, total 2 and totalPages 2.
C19_Witness ==
    \E r \in Slots :
        /\ Answered(r) /\ op[r] = "list"
        /\ arg[r].data = [page |-> 2, limit |-> 1]
        /\ Cardinality(products) = 2
        /\ Len(Response(r).data.data) = 1
        /\ Response(r).data.pagination.total = 2
        /\ Response(r).data.pagination.totalPages = 2

\* Page 3 with limit 2 of a collection with products was answered with no
\* item and the total of the collection.
C19_WitnessBeyond ==
    \E r \in Slots :
        /\ Answered(r) /\ op[r] = "list"
        /\ arg[r].data = [page |-> 3, limit |-> 2]
        /\ products # {}
        /\ Response(r).data.data = << >>
        /\ Response(r).data.pagination.total = Cardinality(products)

\* ---------------------------------------------------------------------
\* The bounds on the rating that a query carries.
WithinBounds(rating, query) ==
    /\ "minRating" \in DOMAIN query => query.minRating <= rating
    /\ "maxRating" \in DOMAIN query => rating <= query.maxRating

HasBound(query) ==
    "minRating" \in DOMAIN query \/ "maxRating" \in DOMAIN query

\* C20: the answer to a list request that carries minRating, maxRating or
\* both has only products whose rating is at least minRating and at most
\* maxRating, a rating equal to a bound included; and its total is the
\* number of stored products whose rating is within the bounds and that
\* satisfy the brand filter of the query.
C20_Step(r) ==
    (ListAnswered(r) /\ HasBound(arg[r].data))
    => LET query == arg[r].data
           items == Response(r)'.data.data
           counted == {p \in products :
                          /\ WithinBounds(p.rating, query)
                          /\ "brand" \in DOMAIN query => p.brand = "PetCo"}
       IN  /\ Response(r)'.status = 200
           /\ \A i \in 1 .. Len(items) :
                  WithinBounds(items[i].rating, query)
           /\ Response(r)'.data.pagination.total = Cardinality(counted)
           /\ Response(r)'.pagination.total = Cardinality(counted)

C20_RatingBounds == [][\A r \in Slots : C20_Step(r)]_vars

\* A list with minRating 8 and maxRating 8 was answered with a product
\* rated 8 while a product rated otherwise is stored too.
C20_Witness ==
    \E r \in Slots :
        /\ Answered(r) /\ op[r] = "list"
        /\ arg[r].data = [minRating |-> 8, maxRating |-> 8]
        /\ Response(r).data.pagination.total = 1
        /\ Len(Response(r).data.data) = 1
        /\ Response(r).data.data[1].rating = 8
        /\ \E p \in products : p.rating # 8

\* ---------------------------------------------------------------------
\* The brand of a stored product has b in it, letter for letter but for
\* case: "petco", "CO" and "pet" are in PetCo, and no brand of the
\* catalogue has a dot, a star or a parenthesis.
ContainsLiterally(brand, b) ==
    b \in {"petco", "CO", "pet"} /\ brand = "PetCo"

\* C21: the answer to a list request with brand b has status 200, has only
\* products whose brand contains b as a literal substring without regard
\* to case, and counts every such product in total, also when b has `.`,
\* `*` or `(` in it.
C21_Step(r) ==
    (ListAnswered(r) /\ "brand" \in DOMAIN arg[r].data)
    => LET b == arg[r].data.brand
           answer == Response(r)'
       IN  /\ answer.status = 200
           /\ \A i \in 1 .. Len(answer.data.data) :
                  ContainsLiterally(answer.data.data[i].brand, b)
           /\ answer.data.pagination.total =
                  Cardinality({p \in products :
                                  ContainsLiterally(p.brand, b)})

C21_BrandLiteralSubstring == [][\A r \in Slots : C21_Step(r)]_vars

\* ---------------------------------------------------------------------
\* How well a product answers the search for "Dog Food", the only search of
\* the model: a product named Dog Food has both words, any other product
\* of the catalogue has one.
Relevance(p) == IF p.name = "Dog Food" THEN 2 ELSE 1

\* C22: the items of the answer to a list request without a search term
\* are in the order of createdAt, latest first; the items of the answer to
\* a list request with a search term are in the order of relevance, most
\* relevant first.
C22_Step(r) ==
    ListAnswered(r)
    => LET items == Response(r)'.data.data
       IN  IF "search" \in DOMAIN arg[r].data
           THEN \A i, j \in 1 .. Len(items) :
                    i < j => Relevance(items[i]) >= Relevance(items[j])
           ELSE \A i, j \in 1 .. Len(items) :
                    i < j => items[i].createdAt >= items[j].createdAt

C22_SortOrder == [][\A r \in Slots : C22_Step(r)]_vars

\* ---------------------------------------------------------------------
\* The envelope of a conflict: status 409, success false and the message of
\* the conflict in the field `error`.
ConflictEnvelope(resp, message) ==
    /\ resp.status = 409
    /\ ~resp.success
    /\ "error" \in DOMAIN resp
    /\ resp.error = message

\* C23: a create or an update that one of the existence checks finds in
\* conflict with a stored product is answered with status 409, success
\* false and, in the field `error`, the name+brand message or the barcode
\* message, whichever check found the conflict.
C23_Step(r) ==
    /\ (CreateBegins(r) /\ PairTaken(products, arg'[r].data))
       => ConflictEnvelope(Response(r)', NameBrandMessage)
    /\ (CreateProduct_FindBarcode(r)
           /\ BarcodeTaken(products, arg[r].data.barcode))
       => ConflictEnvelope(Response(r)', BarcodeMessage)
    /\ (UpdateProduct_FindNameBrand(r)
           /\ PairTakenByOther(products, arg[r].data, arg[r].id))
       => ConflictEnvelope(Response(r)', NameBrandMessage)
    /\ (UpdateProduct_FindBarcode(r)
           /\ BarcodeTakenByOther(products, arg[r].data.barcode, arg[r].id))
       => ConflictEnvelope(Response(r)', BarcodeMessage)

C23_ConflictEnvelope == [][\A r \in Slots : C23_Step(r)]_vars

\* ---------------------------------------------------------------------
\* The answer of each operation to an unexpected fault.
GenericAnswer(o) ==
    CASE o = "create" ->
             [status |-> 500, success |-> FALSE,
              message |-> "Failed to create product",
              error |-> "Failed to create product"]
      [] o = "list" ->
             [status |-> 500, success |-> FALSE,
              message |-> "Failed to fetch products",
              error |-> "Failed to retrieve products"]
      [] o = "getById" ->
             [status |-> 500, success |-> FALSE,
              message |-> "Failed to retrieve product"]
      [] o = "getByBarcode" ->
             [status |-> 500, success |-> FALSE,
              message |-> "Failed to retrieve product"]
      [] o = "update" ->
             [status |-> 500, success |-> FALSE,
              message |-> "Failed to update product"]
      [] o = "delete" ->
             [status |-> 500, success |-> FALSE,
              message |-> "Failed to delete product"]

\* The message of the error in the answer.
Shown(resp) == IF "error" \in DOMAIN resp THEN resp.error ELSE resp.message

\* A storage call of request r fails in this step.
Faults(r) ==
    \E text \in FaultTexts :
        \/ StorageFault(r, text)
        \/ FirstCallFault(r, op'[r], arg'[r], text)

\* Request r gets its answer in this step.
AnsweredNow(r) == Answered(r)' /\ (~Answered(r) \/ op' # op \/ arg' # arg
                                    \/ res' # res)

\* C24: an operation whose storage call fails, whatever the text of the
\* fault, and an operation that ends with status 500 for any other reason,
\* is answered with the one fixed answer of that operation; an operation
\* that ends with a not-found or a conflict error is answered with that
\* error's status and its own message, which is none of the fixed ones.
C24_Step(r) ==
    /\ Faults(r) => Response(r)' = GenericAnswer(op'[r])
    /\ (AnsweredNow(r) /\ ~res'[r].ok)
       => IF res'[r].statusCode \in {404, 409}
          THEN /\ Response(r)'.status = res'[r].statusCode
               /\ Shown(Response(r)') = res'[r].message
               /\ Shown(Response(r)') \in {NotFoundMessage, NameBrandMessage,
                                            BarcodeMessage}
          ELSE Response(r)' = GenericAnswer(op'[r])

C24_OperationalOrGeneric == [][\A r \in Slots : C24_Step(r)]_vars

\* An update with an empty body of a stored product, which nothing but a
\* fault of the storage can make fail, was answered with the fixed answer.
C24_Witness ==
    \E r \in Slots :
        /\ Answered(r) /\ op[r] = "update"
        /\ arg[r].data = EmptyObject
        /\ arg[r].id \in StoredIds(products)
        /\ Response(r) = GenericAnswer("update")

\* ---------------------------------------------------------------------
\* The partial carries a name or a brand, not both.
NameOrBrandOnly(d) ==
    \/ "name" \in DOMAIN d /\ d.name # "" /\ "brand" \notin DOMAIN d
    \/ "brand" \in DOMAIN d /\ d.brand # "" /\ "name" \notin DOMAIN d

\* The (name, brand) pair that product p has once partial d is applied to
\* it is the pair of a stored product with another id.
ResultingPairTaken(coll, p, d) ==
    LET n == IF "name" \in DOMAIN d THEN d.name ELSE p.name
        b == IF "brand" \in DOMAIN d THEN d.brand ELSE p.brand
    IN  \E q \in coll : q.id # p.id /\ q.name = n /\ q.brand = b

\* C25: the write of an update of a stored product whose partial carries a
\* name or a brand but not both, and would give the product the (name,
\* brand) pair of another stored product, is answered with status 409 and
\* leaves the collection as it was.
C25_Step(r) ==
    (/\ UpdateProduct_FindByIdAndUpdate(r)
     /\ NameOrBrandOnly(arg[r].data)
     /\ \E p \in products :
           /\ p.id = arg[r].id
           /\ ResultingPairTaken(products, p, arg[r].data))
    => /\ Response(r)'.status = 409
       /\ products' = products

C25_PartialPairConflict == [][\A r \in Slots : C25_Step(r)]_vars

\* ---------------------------------------------------------------------
\* No product of the collection has the (name, brand) pair or the barcode
\* of d.
IdentityFree(coll, d) ==
    /\ ~PairTaken(coll, d)
    /\ "barcode" \in DOMAIN d => ~BarcodeTaken(coll, d.barcode)

\* C26: with requests that come one after the other, the delete of a stored
\* product is answered 200 and removes the document, after which no product
\* has its (name, brand) pair or its barcode; and a create whose pair and
\* barcode no stored product has passes both existence checks and is
\* answered 201 with the product stored, so that the identity of a deleted
\* product can be created again.
C26_Step(r) ==
    /\ (DeleteRuns(r) /\ arg'[r].id \in StoredIds(products))
       => /\ Response(r)'.status = 200
          /\ \E p \in products :
                /\ p.id = arg'[r].id
                /\ products' = products \ {p}
                /\ IdentityFree(products', p)
    /\ (CreateBegins(r) /\ IdentityFree(products, arg'[r].data))
       => ~Answered(r)'
    /\ (CreateProduct_FindBarcode(r) /\ IdentityFree(products, arg[r].data))
       => pc'[r] = "create_save"
    /\ (CreateProduct_Save(r) /\ IdentityFree(products, arg[r].data))
       => /\ Response(r)'.status = 201
          /\ \E p \in products' \ products :
                /\ p.name = arg[r].data.name
                /\ p.brand = arg[r].data.brand
                /\ "barcode" \in DOMAIN arg[r].data
                   => p.barcode = arg[r].data.barcode

C26_DeleteFreesIdentity == [][\A r \in Slots : C26_Step(r)]_vars

\* Two creates of one name, brand and barcode were both answered 201: the
\* product of the first was deleted before the second came.
C26_Witness ==
    \E r, q \in Slots :
        /\ r # q
        /\ Answered(r) /\ op[r] = "create" /\ Response(r).status = 201
        /\ Answered(q) /\ op[q] = "create" /\ Response(q).status = 201
        /\ arg[r].data = arg[q].data
        /\ "barcode" \in DOMAIN arg[r].data
        /\ res[r].value \cap products = {}
        /\ res[q].value \subseteq products

\* ---------------------------------------------------------------------
\* The products on the page that request r was answered with.
PageItems(r) ==
    LET items == Response(r).data.data
    IN  {items[i] : i \in 1 .. Len(items)}

\* Requests r and q asked for pages 1 and 2 of one product each and were
\* both answered from the collection as it is now: the collection only
\* grows, and both answers count all of its products.
BothPagesListed(r, q) ==
    /\ Answered(r) /\ op[r] = "list" /\ res[r].ok
    /\ Answered(q) /\ op[q] = "list" /\ res[q].ok
    /\ arg[r].data = [page |-> 1, limit |-> 1]
    /\ arg[q].data = [page |-> 2, limit |-> 1]
    /\ Cardinality(products) = 2
    /\ Response(r).data.pagination.total = 2
    /\ Response(q).data.pagination.total = 2

\* C27: when pages 1 and 2 with limit 1 of a collection of two products
\* were listed without a change of the collection in between, every product
\* is on one of the two pages and no product is on both, also when the two
\* products have the same createdAt.
C27_PagesPartition ==
    \A r, q \in Slots :
        BothPagesListed(r, q)
        => /\ PageItems(r) \cup PageItems(q) = products
           /\ PageItems(r) \cap PageItems(q) = {}

\* ---------------------------------------------------------------------
\* C28: the answer to a list request has at most limit items and at most
\* total items, also when products are created and deleted between the two
\* reads of the request.
C28_Step(r) ==
    (ListAnswered(r) /\ res'[r].ok)
    => LET items == Response(r)'.data.data
           pagination == Response(r)'.data.pagination
       IN  /\ Len(items) <= pagination.limit
           /\ Len(items) <= pagination.total

C28_ItemsWithinTotal == [][\A r \in Slots : C28_Step(r)]_vars

\* ---------------------------------------------------------------------
\* The write of an update that began while its product was stored finds
\* that the product was deleted since.
WriteFindsNothing(r) ==
    /\ UpdateProduct_FindByIdAndUpdate(r)
    /\ arg[r].id \notin StoredIds(products)

\* The partial is one that the update validators of the schema accept.
PassesUpdateValidators(u) ==
    /\ "rating" \in DOMAIN u => u.rating \in 0 .. 10
    /\ "ingredients" \in DOMAIN u => Len(u.ingredients) > 0

\* C29 as stated: an update whose product was deleted between its
\* existence check and its write is answered 404 'Product not found',
\* whatever its partial, and it changes no product.
C29_StatedStep(r) ==
    WriteFindsNothing(r)
    => /\ IsNotFound(Response(r)')
       /\ products' = products

C29_AlwaysNotFound == [][\A r \in Slots : C29_StatedStep(r)]_vars

\* C29: an update whose product was deleted between its existence check
\* and its write stores nothing: no product has the id afterwards and no
\* other product is changed.  It is answered 404 'Product not found' when
\* its partial passes the update validators, and 500 when it does not.
C29_Step(r) ==
    WriteFindsNothing(r)
    => /\ products' = products
       /\ arg[r].id \notin StoredIds(products')
       /\ Answered(r)'
       /\ IF PassesUpdateValidators(arg[r].data)
          THEN IsNotFound(Response(r)')
          ELSE /\ Response(r)'.status = 500
               /\ ~Response(r)'.success

C29_NeverRecreates == [][\A r \in Slots : C29_Step(r)]_vars

\* An update that began on a stored product was answered 404 and the
\* product is not stored.
C29_Witness ==
    /\ Answered(1) /\ op[1] = "update"
    /\ IsNotFound(Response(1))
    /\ arg[1].id # FakeId
    /\ arg[1].id \notin StoredIds(products)
    /\ products # {}

\* The same with a partial that the validators refuse.
C29_WitnessRefused ==
    /\ Answered(1) /\ op[1] = "update"
    /\ arg[1].data = [rating |-> 11]
    /\ Response(1).status = 500
    /\ arg[1].id \notin StoredIds(products)

\* ---------------------------------------------------------------------
\* Query strings whose bounds are both within [0, 10] and in the wrong
\* order, and the same of the numbers read from them.
InvertedBounds == {<<"8", "3">>, <<"10", "0">>}

InvertedAsked(query) ==
    /\ "minRating" \in DOMAIN query /\ "maxRating" \in DOMAIN query
    /\ <<query.minRating, query.maxRating>> \in InvertedBounds

InvertedRead(query) ==
    /\ "minRating" \in DOMAIN query /\ "maxRating" \in DOMAIN query
    /\ query.minRating \in 0 .. 10 /\ query.maxRating \in 0 .. 10
    /\ query.minRating > query.maxRating

\* C30: a list request whose minRating and maxRating are each within
\* [0, 10] and minRating is greater than maxRating is not refused by the
\* validators, and whatever is stored it is answered 200 with no items,
\* total 0 and totalPages 0.
C30_Step(r) ==
    /\ (Free(r) /\ op'[r] = "invalid") => ~InvertedAsked(arg'[r].data)
    /\ (Free(r) /\ op'[r] = "list")
       => \A query \in BoundsQueries :
              (GetProductsQuery(r, query) /\ InvertedAsked(query))
              => InvertedRead(arg'[r].data)
    /\ (ListAnswered(r) /\ InvertedRead(arg[r].data))
       => /\ Response(r)'.status = 200
          /\ Response(r)'.success
          /\ Response(r)'.data.data = << >>
          /\ Response(r)'.data.pagination.total = 0
          /\ Response(r)'.data.pagination.totalPages = 0

C30_InvertedRangeIsEmpty == [][\A r \in Slots : C30_Step(r)]_vars

\* A list with minRating 8 and maxRating 3 was answered with nothing while
\* products rated 3 and 8 are stored.
C30_Witness ==
    \E r \in Slots :
        /\ Answered(r) /\ op[r] = "list"
        /\ arg[r].data.minRating = 8 /\ arg[r].data.maxRating = 3
        /\ Response(r).status = 200
        /\ Response(r).data.pagination.total = 0
        /\ \E p, q \in products : p.rating = 3 /\ q.rating = 8
====
